---------------------------- MODULE Spec2Model ----------------------------
(***************************************************************************)
(* A model of the scoring and metrics engine of epic_kitchens              *)
(* (epic_kitchens/meta.py, scoring.py, metrics.py).                        *)
(*                                                                         *)
(* The library is a set of functions a caller invokes.  A behaviour is one *)
(* call: Init draws the arguments, an action runs the function's body and  *)
(* leaves either a returned value (pc = "done") or a raised exception      *)
(* (pc = "raised") in the state.                                           *)
(*                                                                         *)
(* Numbers.  Scores are finite reals; they are modelled as integers        *)
(* counted in units of ln 2, so that exp(s) = 2^s is exact and every       *)
(* softmax probability is a rational number <<numerator, denominator>>.    *)
(* Arrays are sequences (1-based): class id c of the source is position    *)
(* c + 1 of a row, and the model keeps class ids 0-based as the source     *)
(* does.                                                                   *)
(***************************************************************************)
EXTENDS Integers, Naturals, Sequences, FiniteSets, TLC

VARIABLES
    pc,             \* "call" before the body runs, then "done" or "raised"
    fn,             \* the function called
    exc,            \* the exception raised: its type and message
    ret,            \* the value returned
    verb, noun,     \* meta.py codec: arguments of action_id_from_verb_noun
    scores,         \* scoring.py: argument of scores_to_ranks
    rankings,       \* metrics.py: argument of topk_accuracy / precision_recall
    labels,         \* metrics.py: argument of topk_accuracy / precision_recall
    ks,             \* metrics.py: argument of topk_accuracy
    classes,        \* metrics.py: argument of precision_recall
    verb_scores,    \* scoring.py: argument of compute_action_scores
    noun_scores,    \* scoring.py: argument of compute_action_scores
    top_k,          \* scoring.py: argument of compute_action_scores
    action_priors,  \* scoring.py: argument of compute_action_scores
    frame,          \* scoring.py: local variables of compute_action_scores
    groundtruth_df,     \* metrics.py: the caller's table, argument of compute_metrics
    many_shot_verbs,    \* metrics.py: argument of compute_metrics
    many_shot_nouns,    \* metrics.py: argument of compute_metrics
    many_shot_actions,  \* metrics.py: argument of compute_metrics
    given,          \* the caller's groundtruth_df and scores as first built
    before,         \* the caller's groundtruth_df and scores when the last call began
    calls,          \* the number of calls made so far
    _annotation_repositories,   \* meta.py: the repositories by version
    _annotation_repository,     \* meta.py: the version of the active repository
    disk,           \* the local files: the version each was downloaded from
    log             \* the load_file calls, downloads attempted and loaders invoked, in order

vars == <<pc, fn, exc, ret, verb, noun, scores, rankings, labels, ks, classes,
          verb_scores, noun_scores, top_k, action_priors, frame,
          groundtruth_df, many_shot_verbs, many_shot_nouns, many_shot_actions,
          given, before, calls,
          _annotation_repositories, _annotation_repository, disk, log>>

codecVars   == <<verb, noun>>
rankVars    == <<scores>>
metricVars  == <<rankings, labels, ks, classes>>
composeArgs == <<verb_scores, noun_scores, top_k, action_priors>>
composeVars == <<composeArgs, frame>>
evalArgs    == <<many_shot_verbs, many_shot_nouns, many_shot_actions>>
evalVars    == <<groundtruth_df, evalArgs, given, before, calls>>
loadVars    == <<_annotation_repositories, _annotation_repository, disk, log>>

-----------------------------------------------------------------------------
(* Python values *)

\* Python's None, and a present optional argument.
None == [none |-> TRUE]
Some(v) == [some |-> v]
IsNone(x) == DOMAIN x = {"none"}

\* An exception, and no exception.
Raise(type, msg) == [type |-> type, msg |-> msg]
NoExc == Raise("none", "")

\* A numpy array: its number of dimensions and its data.  A 1D array holds a
\* sequence of numbers, a 2D array a sequence of rows of equal length.
Array(d, x) == [ndim |-> d, data |-> x]
Array1(x) == Array(1, x)
Array2(x) == Array(2, x)

\* arr.shape[0]
Shape0(arr) == Len(arr.data)

\* A 2D array with no rows and c columns: its data is empty, so it carries
\* its number of columns.
EmptyArray2(c) == [ndim |-> 2, data |-> <<>>, cols |-> c]

\* arr.shape[-1] of a 2D array
ShapeLast(arr) == IF "cols" \in DOMAIN arr THEN arr.cols ELSE Len(arr.data[1])

\* arr.shape of a 1D or 2D array
Shape(arr) == IF arr.ndim = 1 THEN <<Shape0(arr)>> ELSE <<Shape0(arr), ShapeLast(arr)>>

-----------------------------------------------------------------------------
(* Sequences and rationals *)

MinOf(a, b) == IF a <= b THEN a ELSE b
MaxOf(a, b) == IF a >= b THEN a ELSE b

SeqMax(s) == CHOOSE m \in {s[i] : i \in DOMAIN s} : \A i \in DOMAIN s : s[i] <= m

RECURSIVE SeqSum(_)
SeqSum(s) == IF s = <<>> THEN 0 ELSE s[1] + SeqSum(Tail(s))

\* seq[:k] for k >= 0
Take(s, k) == SubSeq(s, 1, MinOf(k, Len(s)))

\* seq[::-1]
Reverse(s) == [i \in 1..Len(s) |-> s[Len(s) + 1 - i]]

\* The permutations of 0..n-1 as sequences of length n.
Perms(n) == {p \in [1..n -> 0..(n - 1)] : \A i, j \in 1..n : p[i] = p[j] => i = j}

RECURSIVE Pow2(_)
Pow2(k) == IF k <= 0 THEN 1 ELSE 2 * Pow2(k - 1)

RECURSIVE GCD(_, _)
GCD(a, b) == IF b = 0 THEN a ELSE GCD(b, a % b)

\* A rational <<n, d>> with d > 0, in lowest terms.
Rat(n, d) == LET g == GCD(n, d) IN <<n \div g, d \div g>>
RatMul(p, q) == Rat(p[1] * q[1], p[2] * q[2])
RatDiv(p, q) == Rat(p[1] * q[2], p[2] * q[1])
RatAdd(p, q) == Rat(p[1] * q[2] + q[1] * p[2], p[2] * q[2])
RatLeq(p, q) == p[1] * q[2] <= q[1] * p[2]

RECURSIVE RatSum(_)
RatSum(s) == IF s = <<>> THEN <<0, 1>> ELSE RatAdd(s[1], RatSum(Tail(s)))

-----------------------------------------------------------------------------
(* meta.py: the dense action id *)

_NOUN_CLASS_COUNT == 352

\* A plausible slip: the class count taken as the largest noun id.
action_id_from_verb_noun_OffByOne(v, n) == v * (_NOUN_CLASS_COUNT - 1) + n

action_id_from_verb_noun(v, n) == v * _NOUN_CLASS_COUNT + n

\* np.mod(action, _NOUN_CLASS_COUNT)
noun_id_from_action_id(action) == action % _NOUN_CLASS_COUNT

\* np.floor(action_id / _NOUN_CLASS_COUNT).astype("int")
verb_id_from_action_id(action_id) == action_id \div _NOUN_CLASS_COUNT


-----------------------------------------------------------------------------
(* Bounds of the inputs *)

\* Verb class ids are drawn from 0..MaxVerb.
MaxVerb == 3

\* The number of noun classes the dataset module declares: noun class ids
\* are drawn from 0.._noun_class_count - 1.
_noun_class_count == 353

\* Scores are drawn from 0..MaxScore (in units of ln 2).
MaxScore == 2

\* An enumerated array has at most MaxCells elements.
MaxCells == 4

ScoreValues == 0..MaxScore

\* The shapes (n, c) of the enumerated 2D arrays.
Shapes == {sh \in (0..MaxCells) \X (0..MaxCells) : sh[1] * sh[2] <= MaxCells}

\* The data of every 2D array over vals with one of the shapes.
Matrices(vals) == UNION {[1..sh[1] -> [1..sh[2] -> vals]] : sh \in Shapes}

\* The data of every 1D array over vals with at most n elements.
Vectors(vals, n) == UNION {[1..k -> vals] : k \in 0..n}

\* The variables a call does not take as arguments.
Unused(v) == v = None

\* The variables of compute_metrics and of the annotation repositories, for
\* the calls that use neither.
UnusedEval ==
    /\ Unused(groundtruth_df) /\ Unused(many_shot_verbs) /\ Unused(many_shot_nouns)
    /\ Unused(many_shot_actions) /\ Unused(given) /\ Unused(before) /\ Unused(calls)

UnusedLoad ==
    /\ Unused(_annotation_repositories) /\ Unused(_annotation_repository)
    /\ Unused(disk) /\ Unused(log)

-----------------------------------------------------------------------------
(* meta.py: encode a (verb, noun) pair, then decode the action id *)

InitCodec ==
    /\ pc = "call"
    /\ fn = "action_id_from_verb_noun"
    /\ exc = NoExc
    /\ ret = None
    /\ UnusedEval /\ UnusedLoad
    /\ verb \in 0..MaxVerb
    /\ noun \in 0..(_noun_class_count - 1)
    /\ Unused(scores)
    /\ Unused(rankings) /\ Unused(labels) /\ Unused(ks) /\ Unused(classes)
    /\ Unused(verb_scores) /\ Unused(noun_scores)
    /\ Unused(top_k) /\ Unused(action_priors) /\ Unused(frame)

Encode ==
    /\ fn = "action_id_from_verb_noun"
    /\ pc = "call"
    /\ ret' = [action |-> action_id_from_verb_noun(verb, noun)]
    /\ pc' = "encoded"
    /\ UNCHANGED <<fn, exc, codecVars, rankVars, metricVars, composeVars, evalVars, loadVars>>

Decode ==
    /\ fn = "action_id_from_verb_noun"
    /\ pc = "encoded"
    /\ ret' = [action |-> ret.action,
               verb |-> verb_id_from_action_id(ret.action),
               noun |-> noun_id_from_action_id(ret.action)]
    /\ pc' = "done"
    /\ UNCHANGED <<fn, exc, codecVars, rankVars, metricVars, composeVars, evalVars, loadVars>>

NextCodec == Encode \/ Decode

SpecCodec == InitCodec /\ [][NextCodec]_vars

\* C1: for every verb class v >= 0 and noun class n with 0 <= n < 352 the
\* action id is v * 352 + n and decoding it recovers exactly (v, n).
C1_RoundTrip ==
    (fn = "action_id_from_verb_noun" /\ pc = "done" /\ noun < 352)
        => /\ ret.action = verb * 352 + noun
           /\ ret.verb = verb
           /\ ret.noun = noun

\* A pair with the largest noun id of the 352 and a verb above 0 has been
\* encoded and decoded.
C1_Witness ==
    /\ fn = "action_id_from_verb_noun" /\ pc = "done"
    /\ verb = MaxVerb /\ noun = 351
    /\ ret.action = MaxVerb * 352 + 351
    /\ ret.verb = verb /\ ret.noun = noun

-----------------------------------------------------------------------------
(* scoring.py: the ranking utility *)

\* np.argsort of one row: the indices in an order of ascending value.  The
\* default kind ("quicksort") is not stable, so equal values may come in
\* any order: every sorting permutation is a possible result.
RECURSIVE SortingOrders(_, _)
SortingOrders(row, left) ==
    IF left = {} THEN {<<>>}
    ELSE UNION {{<<c>> \o p : p \in SortingOrders(row, left \ {c})} :
                 c \in {c \in left : \A d \in left : RatLeq(row[c + 1], row[d + 1])}}

\* np.argsort of one row of rationals.
RatArgsorts(row) == SortingOrders(row, 0..(Len(row) - 1))

\* np.argsort of one row of integers.
Argsorts(row) == RatArgsorts([j \in 1..Len(row) |-> <<row[j], 1>>])

\* The sequences that take their i-th element from the i-th set.
RECURSIVE SeqProduct(_)
SeqProduct(sets) ==
    IF sets = <<>> THEN {<<>>}
    ELSE {<<h>> \o t : h \in sets[1], t \in SeqProduct(Tail(sets))}

\* np.argsort(data, axis=-1) of a 2D array: one sorting permutation per row.
ArgsortRows(data) == SeqProduct([i \in 1..Len(data) |-> Argsorts(data[i])])

\* m[..., ::-1]
ReverseRows(m) == [i \in 1..Len(m) |-> Reverse(m[i])]

\* A plausible slip: the ascending argsort returned without the reversal.
_scores_array_to_ranks_Ascending(data, sorted) == sorted

\* _scores_array_to_ranks after its assertion: `sorted` is the outcome of
\* scores.argsort(axis=-1).
_scores_array_to_ranks(data, sorted) == ReverseRows(sorted)

InitRanks ==
    /\ pc = "call"
    /\ fn = "scores_to_ranks"
    /\ exc = NoExc
    /\ ret = None
    /\ UnusedEval /\ UnusedLoad
    /\ \/ scores \in {Array2(m) : m \in Matrices(ScoreValues)}
       \/ scores \in {Array1(v) : v \in Vectors(ScoreValues, MaxCells)}
    /\ Unused(verb) /\ Unused(noun)
    /\ Unused(rankings) /\ Unused(labels) /\ Unused(ks) /\ Unused(classes)
    /\ Unused(verb_scores) /\ Unused(noun_scores)
    /\ Unused(top_k) /\ Unused(action_priors) /\ Unused(frame)

\* scores_to_ranks on an ndarray of 2 dimensions.
ScoresToRanks ==
    /\ fn = "scores_to_ranks"
    /\ pc = "call"
    /\ scores.ndim = 2
    /\ \E sorted \in ArgsortRows(scores.data) :
          ret' = Array2(_scores_array_to_ranks(scores.data, sorted))
    /\ pc' = "done"
    /\ UNCHANGED <<fn, exc, codecVars, rankVars, metricVars, composeVars, evalVars, loadVars>>

\* scores_to_ranks on an ndarray that is not 2D: the assertion of
\* _scores_array_to_ranks fails.
ScoresToRanksNot2D ==
    /\ fn = "scores_to_ranks"
    /\ pc = "call"
    /\ scores.ndim # 2
    /\ exc' = Raise("AssertionError", "Expected scores to be 2D")
    /\ pc' = "raised"
    /\ UNCHANGED <<fn, ret, codecVars, rankVars, metricVars, composeVars, evalVars, loadVars>>

NextRanks == ScoresToRanks \/ ScoresToRanksNot2D

SpecRanks == InitRanks /\ [][NextRanks]_vars

\* C2: every row of scores_to_ranks(scores) of a dense 2D matrix with C
\* columns is a permutation of 0..C-1 and lists the classes by
\* non-increasing original score.
C2_RanksPermutationDescending ==
    (fn = "scores_to_ranks" /\ pc = "done") =>
        /\ ret.ndim = 2
        /\ Len(ret.data) = Len(scores.data)
        /\ \A i \in 1..Len(scores.data) :
              LET row == scores.data[i]
                  r == ret.data[i]
                  C == Len(row)
              IN  /\ Len(r) = C
                  /\ \A c \in 0..(C - 1) : \E j \in 1..C : r[j] = c
                  /\ \A j \in 1..C : r[j] \in 0..(C - 1)
                  /\ \A j \in 1..(C - 1) : row[r[j] + 1] >= row[r[j + 1] + 1]

\* A two-row matrix whose first row has distinct scores in ascending order
\* has been ranked.
C2_Witness ==
    /\ fn = "scores_to_ranks" /\ pc = "done"
    /\ Len(scores.data) = 2
    /\ scores.data[1] = <<0, 2>>
    /\ ret.data[1] = <<1, 0>>

-----------------------------------------------------------------------------
(* metrics.py: topk_accuracy and precision_recall *)

\* The class ids that occur in the enumerated rankings and labels.
ClassIds == {0, 1, 2}

\* A rank array has at most MaxInstances rows and MaxColumns columns.
MaxInstances == 2
MaxColumns == 3

\* The k values of the enumerated ks are drawn from 1..MaxK.
MaxK == 3

\* An enumerated classes argument names at most MaxClassesLen classes.
MaxClassesLen == 2

Injective(s) == \A i, j \in DOMAIN s : s[i] = s[j] => i = j

\* The rows of a rank array with c columns: no class is ranked twice.
RankRows(c) == {r \in [1..c -> ClassIds] : Injective(r)}

\* The data of the enumerated 2D rank arrays (at least one row and column).
Rankings2D ==
    UNION {[1..n -> RankRows(c)] : n \in 1..MaxInstances, c \in 1..MaxColumns}

\* The rankings and labels of tests/unit/test_metrics.py.
TestRanks3 == << <<1, 2, 3>>, <<2, 3, 1>>, <<3, 1, 2>> >>
TestRanks4 == << <<1, 2, 3>>, <<2, 3, 1>>, <<3, 1, 2>>, <<1, 2, 3>> >>
TestLabels4 == <<1, 3, 2, 1>>

\* The ascending sequence of the elements of a finite set of integers.
SortedSeq(S) ==
    CHOOSE s \in [1..Cardinality(S) -> S] :
        \A i, j \in 1..Cardinality(S) : i < j => s[i] < s[j]

\* np.unique(labels) of a 1D array
Unique(lab) == SortedSeq({lab[i] : i \in DOMAIN lab})

\* A plausible slip: the check written as an assertion, as in
\* _scores_array_to_ranks.
_check_label_predictions_preconditions_Assert(rnk, lab) ==
    IF rnk.ndim # 2
    THEN Raise("AssertionError", "Rankings should be a 2D matrix")
    ELSE IF lab.ndim # 1
    THEN Raise("AssertionError", "Labels should be a 1D vector")
    ELSE IF Shape0(lab) # Shape0(rnk)
    THEN Raise("AssertionError", "Number of labels provided does not match number of predictions")
    ELSE NoExc

\* The exception _check_label_predictions_preconditions raises, or NoExc.
_check_label_predictions_preconditions(rnk, lab) ==
    IF rnk.ndim # 2
    THEN Raise("ValueError", "Rankings should be a 2D matrix")
    ELSE IF lab.ndim # 1
    THEN Raise("ValueError", "Labels should be a 1D vector")
    ELSE IF Shape0(lab) # Shape0(rnk)
    THEN Raise("ValueError", "Number of labels provided does not match number of predictions")
    ELSE NoExc

\* ks as a tuple: an int k is wrapped as (k,).
KsTuple(k) == IF "int" \in DOMAIN k THEN <<k.int>> ELSE k.tuple

\* A plausible slip: the rankings trimmed to the smallest k.
TrimK_Min(kt) == CHOOSE m \in {kt[i] : i \in DOMAIN kt} : \A i \in DOMAIN kt : m <= kt[i]

\* maxk = np.max(ks)
TrimK(kt) == SeqMax(kt)

\* A plausible slip: only the prediction at rank k is looked at.
TopSlice_OnlyKth(row, k) == SubSeq(row, MinOf(k, Len(row) + 1), MinOf(k, Len(row)))

\* row[:k]
TopSlice(row, k) == Take(row, k)

\* tp = rankings[:, :maxk] == labels.reshape(-1, 1)
TruePositives(data, lab, maxk) ==
    [i \in 1..Len(data) |->
        LET trimmed == Take(data[i], maxk)
        IN  [j \in 1..Len(trimmed) |-> trimmed[j] = lab[i]]]

\* .max() of a non-empty row of booleans
BoolMax(row) == \E j \in DOMAIN row : row[j]

\* .mean() of a non-empty 1D array of booleans
BoolMean(col) == Rat(Cardinality({i \in DOMAIN col : col[i]}), Len(col))

\* The body of topk_accuracy: the exception raised and the value returned.
topk_accuracy(rnk, lab, k) ==
    LET kt == KsTuple(k)
        check == _check_label_predictions_preconditions(rnk, lab)
    IN  IF check.type # "none"
        THEN [exc |-> check, ret |-> None]
        ELSE LET maxk == TrimK(kt)
                 tp == TruePositives(rnk.data, lab.data, maxk)
                 accuracies ==
                    [j \in 1..Len(kt) |->
                        BoolMean([i \in 1..Len(tp) |-> BoolMax(TopSlice(tp[i], kt[j]))])]
             IN  [exc |-> NoExc,
                  ret |-> IF Len(accuracies) = 1 THEN accuracies[1] ELSE accuracies]

\* A plausible slip: the last column taken as the prediction.
PredictedLabels_Last(data) == [i \in 1..Len(data) |-> data[i][Len(data[i])]]

\* y_pred = rankings[:, 0]
PredictedLabels(data) == [i \in 1..Len(data) |-> data[i][1]]

\* A plausible slip: np.any in place of np.all.
AllPresent_Any(cls, lab) == \E j \in DOMAIN cls : cls[j] \in {lab[i] : i \in DOMAIN lab}

\* np.all(np.in1d(classes, np.unique(labels)))
AllPresent(cls, lab) ==
    LET present == Unique(lab)
        provided_class_presence ==
            [j \in 1..Len(cls) |-> \E i \in DOMAIN present : present[i] = cls[j]]
    IN  \A j \in DOMAIN provided_class_presence : provided_class_presence[j]

\* sklearn's precision_recall_fscore_support(y_true, y_pred, labels=cls,
\* average=None): per class of cls, in the order of cls, tp_sum / pred_sum
\* and tp_sum / true_sum, a zero denominator giving 0.
precision_recall_fscore_support(y_true, y_pred, cls) ==
    LET idx == 1..Len(y_true)
        tp_sum(c) == Cardinality({i \in idx : y_true[i] = y_pred[i] /\ y_true[i] = c})
        pred_sum(c) == Cardinality({i \in idx : y_pred[i] = c})
        true_sum(c) == Cardinality({i \in idx : y_true[i] = c})
        _prf_divide(num, den) == IF den = 0 THEN <<0, 1>> ELSE Rat(num, den)
    IN  [precision |-> [j \in 1..Len(cls) |-> _prf_divide(tp_sum(cls[j]), pred_sum(cls[j]))],
         recall |-> [j \in 1..Len(cls) |-> _prf_divide(tp_sum(cls[j]), true_sum(cls[j]))]]

\* The body of precision_recall: the exception raised and the value returned.
precision_recall(rnk, lab, cls) ==
    LET check == _check_label_predictions_preconditions(rnk, lab)
    IN  IF check.type # "none"
        THEN [exc |-> check, ret |-> None]
        ELSE IF ~IsNone(cls) /\ ~AllPresent(cls.some.data, lab.data)
        THEN [exc |-> Raise("ValueError", "Classes are not in labels"), ret |-> None]
        ELSE LET y_pred == PredictedLabels(rnk.data)
                 used == IF IsNone(cls) THEN Unique(lab.data) ELSE cls.some.data
             IN  [exc |-> NoExc,
                  ret |-> precision_recall_fscore_support(lab.data, y_pred, used)]

\* The enumerated ks: an int, or a tuple of one or two k values.
KsChoices ==
    {[int |-> k] : k \in 1..MaxK}
        \cup {[tuple |-> t] : t \in UNION {[1..n -> 1..MaxK] : n \in 1..2}}

\* The enumerated classes: None, or an array of distinct class ids.
ClassesChoices ==
    {None} \cup
    {Some(Array1(c)) :
        c \in {s \in UNION {[1..n -> ClassIds] : n \in 1..MaxClassesLen} : Injective(s)}}

InitMetricsCommon ==
    /\ pc = "call"
    /\ exc = NoExc
    /\ ret = None
    /\ UnusedEval /\ UnusedLoad
    /\ Unused(verb) /\ Unused(noun) /\ Unused(scores)
    /\ Unused(verb_scores) /\ Unused(noun_scores)
    /\ Unused(top_k) /\ Unused(action_priors) /\ Unused(frame)

InitTopk ==
    /\ InitMetricsCommon
    /\ fn = "topk_accuracy"
    /\ Unused(classes)
    /\ \/ /\ rankings \in {Array2(m) : m \in Rankings2D}
          /\ labels \in {Array1(v) : v \in [1..Len(rankings.data) -> ClassIds]}
          /\ ks \in KsChoices
       \/ /\ rankings = Array2(TestRanks4)
          /\ labels = Array1(TestLabels4)
          /\ ks \in {[tuple |-> <<1, 3, 5>>], [int |-> 2], [int |-> 3]}

InitPR ==
    /\ InitMetricsCommon
    /\ fn = "precision_recall"
    /\ Unused(ks)
    /\ \/ /\ rankings \in {Array2(m) : m \in Rankings2D}
          /\ labels \in {Array1(v) : v \in [1..Len(rankings.data) -> ClassIds]}
          /\ classes \in ClassesChoices
       \/ /\ rankings = Array2(TestRanks3)
          /\ labels \in {Array1(<<1, 2, 3>>), Array1(<<3, 1, 2>>), Array1(<<2, 3, 1>>)}
          /\ classes \in {None, Some(Array1(<<1>>)), Some(Array1(<<4>>))}

TopkAccuracy ==
    /\ fn = "topk_accuracy"
    /\ pc = "call"
    /\ LET r == topk_accuracy(rankings, labels, ks)
       IN  /\ exc' = r.exc
           /\ ret' = r.ret
           /\ pc' = IF r.exc.type = "none" THEN "done" ELSE "raised"
    /\ UNCHANGED <<fn, codecVars, rankVars, metricVars, composeVars, evalVars, loadVars>>

PrecisionRecall ==
    /\ fn = "precision_recall"
    /\ pc = "call"
    /\ LET r == precision_recall(rankings, labels, classes)
       IN  /\ exc' = r.exc
           /\ ret' = r.ret
           /\ pc' = IF r.exc.type = "none" THEN "done" ELSE "raised"
    /\ UNCHANGED <<fn, codecVars, rankVars, metricVars, composeVars, evalVars, loadVars>>

SpecTopk == InitTopk /\ [][TopkAccuracy]_vars

SpecPR == InitPR /\ [][PrecisionRecall]_vars

\* Arguments of every dimensionality: rankings that are 1D, 2D or 3D, labels
\* that are 0-D, 1D (of any length up to MaxInstances + 1) or 2D.
RankingsAnyDim ==
    {Array2(m) : m \in Rankings2D}
        \cup {Array1(r) : r \in UNION {RankRows(c) : c \in 1..MaxColumns}}
        \cup {Array(3, <<m>>) : m \in [1..1 -> RankRows(1)]}

LabelsAnyDim ==
    {Array1(v) : v \in UNION {[1..n -> ClassIds] : n \in 0..(MaxInstances + 1)}}
        \cup {Array(0, c) : c \in ClassIds}
        \cup {Array2(<<v>>) : v \in UNION {[1..n -> ClassIds] : n \in 1..MaxInstances}}

\* The default ks of topk_accuracy.
DefaultKs == [tuple |-> <<1, 5>>]

InitValidation ==
    /\ InitMetricsCommon
    /\ rankings \in RankingsAnyDim
    /\ labels \in LabelsAnyDim
    /\ \/ fn = "topk_accuracy" /\ ks = DefaultKs /\ Unused(classes)
       \/ fn = "precision_recall" /\ classes = None /\ Unused(ks)

NextValidation == TopkAccuracy \/ PrecisionRecall

SpecValidation == InitValidation /\ [][NextValidation]_vars

\* The instances whose label is among the first k entries of their ranking.
HitsAt(k) ==
    {i \in 1..Len(rankings.data) :
        \E j \in 1..MinOf(k, Len(rankings.data[i])) :
            rankings.data[i][j] = labels.data[i]}

\* The fraction of instances whose label is among the first k entries.
FractionAt(k) == Rat(Cardinality(HitsAt(k)), Len(rankings.data))

\* C3: topk_accuracy returns, for each k of ks and in the order of ks, the
\* fraction of instances whose label is among the first k entries of their
\* ranking (a single k gives that one fraction); a k beyond the number of
\* columns means the whole row; the rankings and labels of the test give
\* [0.5, 1, 1] for ks = (1, 3, 5).
C3_TopkIsFractionOfHits ==
    (fn = "topk_accuracy" /\ pc = "done") =>
        LET kt == KsTuple(ks)
        IN  /\ exc.type = "none"
            /\ IF Len(kt) = 1
               THEN ret = FractionAt(kt[1])
               ELSE /\ Len(ret) = Len(kt)
                    /\ \A j \in 1..Len(kt) : ret[j] = FractionAt(kt[j])
            /\ (rankings.data = TestRanks4 /\ labels.data = TestLabels4
                    /\ kt = <<1, 3, 5>>)
                  => ret = << <<1, 2>>, <<1, 1>>, <<1, 1>> >>

\* The call of the test has returned, and so has a call with a k beyond the
\* number of columns.
C3_Witness ==
    /\ fn = "topk_accuracy" /\ pc = "done"
    /\ rankings.data = TestRanks4 /\ labels.data = TestLabels4
    /\ KsTuple(ks) = <<1, 3, 5>>
    /\ ret = << <<1, 2>>, <<1, 1>>, <<1, 1>> >>

\* C4: for fixed rankings and labels the top-k accuracy never decreases as k
\* grows: within the values one call returns, and between separate calls
\* with a single k each.
C4_TopkMonotoneInK ==
    (fn = "topk_accuracy" /\ pc = "done") =>
        LET kt == KsTuple(ks)
            acc == IF Len(kt) = 1 THEN <<ret>> ELSE ret
        IN  /\ \A a, b \in 1..Len(kt) : kt[a] <= kt[b] => RatLeq(acc[a], acc[b])
            /\ \A k1, k2 \in 1..(MaxK + 1) :
                  k1 <= k2 =>
                      RatLeq(topk_accuracy(rankings, labels, [int |-> k1]).ret,
                             topk_accuracy(rankings, labels, [int |-> k2]).ret)
            /\ \A a \in 1..Len(kt) :
                  acc[a] = topk_accuracy(rankings, labels, [int |-> kt[a]]).ret

\* One call has returned a strictly larger accuracy for the larger k, given
\* first in ks.
C4_Witness ==
    /\ fn = "topk_accuracy" /\ pc = "done"
    /\ "tuple" \in DOMAIN ks
    /\ Len(ks.tuple) = 2
    /\ ks.tuple[1] > ks.tuple[2]
    /\ ret[1] # ret[2]
    /\ RatLeq(ret[2], ret[1])

\* The classes precision_recall reports on: those given, else the distinct
\* labels in ascending order.
ReportedClasses ==
    IF IsNone(classes)
    THEN SortedSeq({labels.data[i] : i \in DOMAIN labels.data})
    ELSE classes.some.data

TP(c) == Cardinality({i \in DOMAIN labels.data :
                        rankings.data[i][1] = c /\ labels.data[i] = c})
FP(c) == Cardinality({i \in DOMAIN labels.data :
                        rankings.data[i][1] = c /\ labels.data[i] # c})
FN(c) == Cardinality({i \in DOMAIN labels.data :
                        rankings.data[i][1] # c /\ labels.data[i] = c})

\* C5: precision_recall takes rankings[:, 0] as the prediction and returns,
\* per class of classes (default: the distinct labels) and in that order,
\* precision TP/(TP+FP) and recall TP/(TP+FN); a class never predicted
\* gets precision 0; when every prediction equals its label every class
\* gets precision 1 and recall 1.
C5_PrecisionRecallPerClass ==
    (fn = "precision_recall" /\ pc = "done") =>
        LET cls == ReportedClasses
        IN  /\ Len(ret.precision) = Len(cls)
            /\ Len(ret.recall) = Len(cls)
            /\ \A j \in 1..Len(cls) :
                  LET c == cls[j]
                  IN  /\ ret.precision[j] =
                            IF TP(c) + FP(c) = 0 THEN <<0, 1>>
                            ELSE Rat(TP(c), TP(c) + FP(c))
                      /\ TP(c) + FN(c) > 0
                      /\ ret.recall[j] = Rat(TP(c), TP(c) + FN(c))
            /\ (\A i \in DOMAIN labels.data : rankings.data[i][1] = labels.data[i])
                  => \A j \in 1..Len(cls) :
                        ret.precision[j] = <<1, 1>> /\ ret.recall[j] = <<1, 1>>

\* A call has returned a precision strictly between 0 and 1 for one class
\* and precision 0 for a class that was never predicted.
C5_Witness ==
    /\ fn = "precision_recall" /\ pc = "done"
    /\ \E j \in DOMAIN ret.precision :
          ret.precision[j] = <<1, 2>> /\ ret.recall[j] = <<1, 1>>
    /\ \E j \in DOMAIN ret.precision :
          /\ ret.precision[j] = <<0, 1>>
          /\ \A i \in DOMAIN labels.data : rankings.data[i][1] # ReportedClasses[j]

\* C6: precision_recall raises ValueError and returns nothing whenever the
\* classes given contain a class id that does not occur in labels, even if
\* other given classes do occur.
C6_UnknownClassRaises ==
    (/\ fn = "precision_recall" /\ pc # "call"
     /\ ~IsNone(classes)
     /\ \E j \in DOMAIN classes.some.data :
           \A i \in DOMAIN labels.data : labels.data[i] # classes.some.data[j])
        => /\ pc = "raised"
           /\ exc.type = "ValueError"
           /\ ret = None

\* The call was rejected although one of the two classes given occurs in
\* the labels.
C6_Witness ==
    /\ fn = "precision_recall" /\ pc = "raised"
    /\ exc.type = "ValueError"
    /\ ~IsNone(classes)
    /\ Len(classes.some.data) = 2
    /\ \E i \in DOMAIN labels.data : labels.data[i] = classes.some.data[1]
    /\ \A i \in DOMAIN labels.data : labels.data[i] # classes.some.data[2]

\* C7: topk_accuracy and precision_recall both raise ValueError, before any
\* metric is computed, when rankings is not 2D, or labels is not 1D, or the
\* number of labels differs from the number of ranking rows.
C7_BadShapesRejected ==
    (/\ fn \in {"topk_accuracy", "precision_recall"} /\ pc # "call"
     /\ \/ rankings.ndim # 2
        \/ labels.ndim # 1
        \/ Len(labels.data) # Len(rankings.data))
        => /\ pc = "raised"
           /\ exc.type = "ValueError"
           /\ ret = None

\* precision_recall has rejected 2D rankings with 1D labels of another
\* length (the case of the test).
C7_Witness ==
    /\ fn = "precision_recall" /\ pc = "raised"
    /\ exc.type = "ValueError"
    /\ rankings.ndim = 2 /\ labels.ndim = 1
    /\ Len(rankings.data) = 2 /\ Len(labels.data) = 3

-----------------------------------------------------------------------------
(* scoring.py: top_scores, softmax and compute_action_scores *)

\* top_k of compute_action_scores is drawn from 1..MaxTopK.
MaxTopK == 3

\* The enumerated action priors are counts drawn from PriorValues.
PriorValues == {0, 1, 2}

\* The scores of the calls with two instances.
CoarseScoreValues == {0, 1}

\* The enumerated calls have at most MaxTaskClasses verb classes and as many
\* noun classes.
MaxTaskClasses == 3

\* An enumerated action prior matrix has at most MaxPriorCells elements.
MaxPriorCells == 3

\* A plausible slip: the ascending argsort cut to top_k without the reversal.
top_scores_Ascending(row, k, sorted) ==
    LET top_k_scores_idx == Take(sorted, k)
    IN  [idx |-> top_k_scores_idx,
         scores |-> [j \in 1..Len(top_k_scores_idx) |-> row[top_k_scores_idx[j] + 1]]]

\* top_scores for one row of a 2D array: `sorted` is the outcome of
\* np.argsort of the row; the classes in descending order of score, cut to
\* top_k, and their scores.
top_scores(row, k, sorted) ==
    LET top_k_scores_idx == Take(Reverse(sorted), k)
    IN  [idx |-> top_k_scores_idx,
         scores |-> [j \in 1..Len(top_k_scores_idx) |-> row[top_k_scores_idx[j] + 1]]]

\* np.exp(d) for a score difference d, a multiple of ln 2
Exp(d) == IF d >= 0 THEN <<Pow2(d), 1>> ELSE <<1, Pow2(0 - d)>>

\* softmax of one row: exp(x - max) / sum(exp(x - max))
softmax(x) ==
    LET max_x == SeqMax(x)
        exp_x == [j \in 1..Len(x) |-> Exp(x[j] - max_x)]
        total == RatSum(exp_x)
    IN  [j \in 1..Len(x) |-> RatDiv(exp_x[j], total)]

\* A plausible slip: the prior looked up by the position in the truncated
\* candidate lists.
PriorAt_ByPosition(priors, top_verbs, top_nouns, a, b) == priors[a][b]

\* action_priors[top_verbs[:, :, np.newaxis], top_nouns[:, np.newaxis, :]]
\* at candidate positions (a, b)
PriorAt(priors, top_verbs, top_nouns, a, b) ==
    priors[top_verbs[a] + 1][top_nouns[b] + 1]

\* action_probs_matrix of one instance, flattened row by row:
\* reshape(instance_count, -1)
FlatActionProbs(top_verbs, top_nouns, top_verb_probs, top_noun_probs, priors) ==
    LET kv == Len(top_verbs)
        kn == Len(top_nouns)
    IN  [f \in 1..(kv * kn) |->
            LET a == ((f - 1) \div kn) + 1
                b == ((f - 1) % kn) + 1
                p == RatMul(top_verb_probs[a], top_noun_probs[b])
            IN  IF IsNone(priors) THEN p
                ELSE RatMul(p, <<PriorAt(priors.some.data, top_verbs, top_nouns, a, b), 1>>)]

\* A plausible slip: the flattened argsort used without the reversal.
ActionRanks_Ascending(sorted) == sorted

\* action_ranks = ....argsort(axis=-1)[:, ::-1] of one instance
ActionRanks(sorted) == Reverse(sorted)

\* A plausible slip: the ranked actions returned without the cut to top_k.
TopActions_All(action_ranks, k) == action_ranks

\* action_ranks[:, :top_k] of one instance
TopActions(action_ranks, k) == Take(action_ranks, k)

\* What compute_action_scores computes for one instance, given the outcomes
\* of the three argsorts.
InstanceActionScores(vrow, nrow, k, priors, vsorted, nsorted, asorted) ==
    LET tv == top_scores(vrow, k, vsorted)
        tn == top_scores(nrow, k, nsorted)
        flat == FlatActionProbs(tv.idx, tn.idx, softmax(tv.scores),
                                softmax(tn.scores), priors)
        ranks == TopActions(ActionRanks(asorted), k)
        kn == Len(tn.idx)
    IN  [top_verbs |-> tv.idx,
         top_nouns |-> tn.idx,
         \* np.unravel_index(ranks, (kv, kn)), then the gather from the
         \* candidate lists
         verbs |-> [j \in 1..Len(ranks) |-> tv.idx[(ranks[j] \div kn) + 1]],
         nouns |-> [j \in 1..Len(ranks) |-> tn.idx[(ranks[j] % kn) + 1]],
         action_scores |-> [j \in 1..Len(ranks) |-> flat[ranks[j] + 1]]]

\* Every outcome for one instance: one per choice the three argsorts make
\* among equal values.
InstanceOutcomes(vrow, nrow, k, priors) ==
    UNION {
      UNION {
        LET tv == top_scores(vrow, k, vsorted)
            tn == top_scores(nrow, k, nsorted)
            flat == FlatActionProbs(tv.idx, tn.idx, softmax(tv.scores),
                                    softmax(tn.scores), priors)
        IN  {InstanceActionScores(vrow, nrow, k, priors, vsorted, nsorted, asorted) :
                asorted \in RatArgsorts(flat)}
        : nsorted \in Argsorts(nrow)}
      : vsorted \in Argsorts(vrow)}

\* A plausible slip: the action priors used without the check of their shape.
PriorsCheck_Unchecked(vs, ns, priors) == NoExc

\* The exception compute_action_scores raises for its action_priors.
PriorsCheck(vs, ns, priors) ==
    IF IsNone(priors) THEN NoExc
    ELSE LET expected_action_prior_shape == <<ShapeLast(vs), ShapeLast(ns)>>
             actual == Shape(priors.some)
         IN  IF actual # expected_action_prior_shape
             THEN Raise("ValueError",
                        <<"Expected action_priors to have the shape",
                          expected_action_prior_shape, "but was", actual>>)
             ELSE NoExc

\* action_probs_matrix.reshape(instance_count, -1) of an array of `size`
\* elements: numpy infers the missing dimension as size / instance_count and
\* raises ValueError when it cannot, which is the case for 0 instances.
ReshapeCheck(size, instance_count) ==
    IF instance_count = 0 \/ size % instance_count # 0
    THEN Raise("ValueError",
               <<"cannot reshape array of size", size, "into shape",
                 <<instance_count, "newaxis">> >>)
    ELSE NoExc

\* Score rows of the enumerated calls: one instance, v verbs and n nouns.
ScoreRows(c, vals) == [1..1 -> [1..c -> vals]]

\* Score rows of one instance whose c scores all differ.
DistinctScoreRows(c) ==
    {m \in ScoreRows(c, ScoreValues) : \A i, j \in 1..c : m[1][i] = m[1][j] => i = j}

\* An action prior matrix of r rows and c columns that weights every pair
\* alike.
OnesMatrix(r, c) == [i \in 1..r |-> [j \in 1..c |-> 1]]

\* The (verb classes, noun classes) of the enumerated calls.
ComposeShapes ==
    {sh \in Shapes : sh[1] \in 1..MaxTaskClasses /\ sh[2] \in 1..MaxTaskClasses}

InitCompose ==
    /\ pc = "call"
    /\ fn = "compute_action_scores"
    /\ exc = NoExc
    /\ ret = None
    /\ UnusedEval /\ UnusedLoad
    /\ frame = None
    /\ Unused(verb) /\ Unused(noun) /\ Unused(scores)
    /\ Unused(rankings) /\ Unused(labels) /\ Unused(ks) /\ Unused(classes)
    /\ top_k \in 1..MaxTopK
    /\ \E sh \in ComposeShapes :
          \* one instance, no priors
          \/ /\ verb_scores \in {Array2(m) : m \in ScoreRows(sh[1], ScoreValues)}
             /\ noun_scores \in {Array2(m) : m \in ScoreRows(sh[2], ScoreValues)}
             /\ action_priors = None
          \* one instance with distinct scores, priors
          \/ /\ sh[1] * sh[2] <= MaxPriorCells
             /\ verb_scores \in {Array2(m) : m \in DistinctScoreRows(sh[1])}
             /\ noun_scores \in {Array2(m) : m \in DistinctScoreRows(sh[2])}
             /\ action_priors \in
                    {Some(Array2(m)) : m \in [1..sh[1] -> [1..sh[2] -> PriorValues]]}
          \* two instances, with and without priors
          \/ /\ sh = <<2, 2>>
             /\ verb_scores \in
                    {Array2(m) : m \in [1..2 -> {<<0, 1>>, <<1, 0>>}]}
             /\ noun_scores \in
                    {Array2(m) : m \in [1..2 -> [1..2 -> CoarseScoreValues]]}
             /\ action_priors \in
                    {None, Some(Array2(<< <<0, 1>>, <<2, 1>> >>))}
          \* no instance, with and without priors
          \/ /\ verb_scores = EmptyArray2(sh[1])
             /\ noun_scores = EmptyArray2(sh[2])
             /\ action_priors \in {None, Some(Array2(OnesMatrix(sh[1], sh[2])))}
          \* zero or one instance, priors of another shape, 2D or 1D
          \/ /\ \/ /\ verb_scores = EmptyArray2(sh[1])
                   /\ noun_scores = EmptyArray2(sh[2])
                \/ /\ verb_scores \in {Array2(m) : m \in ScoreRows(sh[1], {0})}
                   /\ noun_scores \in {Array2(m) : m \in ScoreRows(sh[2], {0})}
             /\ \/ \E psh \in ComposeShapes \ {sh} :
                       action_priors = Some(Array2(OnesMatrix(psh[1], psh[2])))
                \/ action_priors = Some(Array1([j \in 1..(sh[1] * sh[2]) |-> 1]))

ComputeActionScores ==
    /\ fn = "compute_action_scores"
    /\ pc = "call"
    /\ LET check == PriorsCheck(verb_scores, noun_scores, action_priors)
           n == Shape0(verb_scores)
           kv == MinOf(top_k, ShapeLast(verb_scores))
           kn == MinOf(top_k, ShapeLast(noun_scores))
           reshape == ReshapeCheck(n * kv * kn, n)
       IN  IF check.type # "none"
           THEN /\ exc' = check
                /\ pc' = "raised"
                /\ UNCHANGED <<ret, frame>>
           ELSE IF reshape.type # "none"
           THEN /\ exc' = reshape
                /\ pc' = "raised"
                /\ UNCHANGED <<ret, frame>>
           ELSE /\ \E out \in SeqProduct([i \in 1..n |->
                        InstanceOutcomes(verb_scores.data[i], noun_scores.data[i],
                                         top_k, action_priors)]) :
                      /\ ret' = [verbs |-> Array2([i \in 1..n |-> out[i].verbs]),
                                 nouns |-> Array2([i \in 1..n |-> out[i].nouns]),
                                 action_scores |->
                                     Array2([i \in 1..n |-> out[i].action_scores])]
                      /\ frame' = [top_verbs |-> [i \in 1..n |-> out[i].top_verbs],
                                   top_nouns |-> [i \in 1..n |-> out[i].top_nouns]]
                /\ pc' = "done"
                /\ exc' = NoExc
    /\ UNCHANGED <<fn, codecVars, rankVars, metricVars, composeArgs, evalVars, loadVars>>

SpecCompose == InitCompose /\ [][ComputeActionScores]_vars

\* The number of verb and noun classes of the call.
VerbCount == ShapeLast(verb_scores)
NounCount == ShapeLast(noun_scores)

\* C8: with or without action priors, the action scores compute_action_scores
\* returns are non-increasing along every row.
C8_ActionScoresDescending ==
    (fn = "compute_action_scores" /\ pc = "done") =>
        \A i \in 1..Len(ret.action_scores.data) :
            LET row == ret.action_scores.data[i]
            IN  \A j \in 1..(Len(row) - 1) : RatLeq(row[j + 1], row[j])

\* A call with priors has returned a row of three strictly decreasing
\* scores.
C8_Witness ==
    /\ fn = "compute_action_scores" /\ pc = "done"
    /\ ~IsNone(action_priors)
    /\ \E i \in 1..Len(ret.action_scores.data) :
          LET row == ret.action_scores.data[i]
          IN  /\ Len(row) = 3
              /\ ~RatLeq(row[1], row[2])
              /\ ~RatLeq(row[2], row[3])

\* The softmax probability of class c among the retained classes, from the
\* original scores: 2^s(c) / sum of 2^s(u) over the retained u.
ProbAmong(row, retained, c) ==
    Rat(Pow2(row[c + 1]),
        SeqSum([j \in 1..Len(retained) |-> Pow2(row[retained[j] + 1])]))

\* C9: every returned verb and noun is an original class id (a column index
\* of verb_scores, of noun_scores), and action_scores[i, j] is the softmax
\* probability of verbs[i, j] among the retained verbs of instance i times
\* that of nouns[i, j] among its retained nouns, times
\* action_priors[verbs[i, j], nouns[i, j]] when priors are given.
C9_ScoreIsOfReturnedPair ==
    (fn = "compute_action_scores" /\ pc = "done") =>
        \A i \in 1..Len(ret.action_scores.data) :
            \A j \in 1..Len(ret.action_scores.data[i]) :
                LET v == ret.verbs.data[i][j]
                    n == ret.nouns.data[i][j]
                    pv == ProbAmong(verb_scores.data[i], frame.top_verbs[i], v)
                    pn == ProbAmong(noun_scores.data[i], frame.top_nouns[i], n)
                    prior == IF IsNone(action_priors) THEN <<1, 1>>
                             ELSE <<action_priors.some.data[v + 1][n + 1], 1>>
                IN  /\ v \in 0..(VerbCount - 1)
                    /\ n \in 0..(NounCount - 1)
                    /\ \E a \in 1..Len(frame.top_verbs[i]) : frame.top_verbs[i][a] = v
                    /\ \E b \in 1..Len(frame.top_nouns[i]) : frame.top_nouns[i][b] = n
                    /\ ret.action_scores.data[i][j] = RatMul(RatMul(pv, pn), prior)

\* A call with priors that differ between class ids has returned, as its
\* best action, a pair whose class ids are not its positions in the
\* candidate lists.
C9_Witness ==
    /\ fn = "compute_action_scores" /\ pc = "done"
    /\ ~IsNone(action_priors)
    /\ VerbCount = 2 /\ NounCount = 2
    /\ action_priors.some.data = << <<0, 1>>, <<2, 1>> >>
    /\ frame.top_verbs[1] = <<1, 0>>
    /\ ret.verbs.data[1][1] = 1 /\ ret.nouns.data[1][1] = 0
    /\ ret.action_scores.data[1][1][1] > 0

PriorsShapeDiffers ==
    /\ ~IsNone(action_priors)
    /\ Shape(action_priors.some) # <<VerbCount, NounCount>>

\* C11: when action_priors is given with a shape other than (number of verb
\* classes, number of noun classes), compute_action_scores raises a
\* ValueError whose message states the expected and the actual shape, and
\* returns nothing.
C11_PriorsShapeMismatchRaises ==
    (fn = "compute_action_scores" /\ pc # "call" /\ PriorsShapeDiffers) =>
        /\ pc = "raised"
        /\ exc.type = "ValueError"
        /\ exc.msg = <<"Expected action_priors to have the shape",
                       <<VerbCount, NounCount>>, "but was",
                       Shape(action_priors.some)>>
        /\ ret = None

\* A call with one instance of 2 verbs and 2 nouns and 1 x 2 priors has
\* been rejected.
C11_Witness ==
    /\ fn = "compute_action_scores" /\ pc = "raised"
    /\ Shape(verb_scores) = <<1, 2>> /\ Shape(noun_scores) = <<1, 2>>
    /\ ~IsNone(action_priors)
    /\ Shape(action_priors.some) = <<1, 2>>
    /\ exc.type = "ValueError"

\* C12 as stated: compute_action_scores called with zero instances does not
\* raise; it returns verb, noun and score arrays of one shape with 0 rows.
C12_ZeroInstancesReturnEmpty ==
    (fn = "compute_action_scores" /\ pc # "call" /\ Shape0(verb_scores) = 0
        /\ ~PriorsShapeDiffers) =>
        /\ pc = "done"
        /\ Shape0(ret.verbs) = 0
        /\ Shape(ret.verbs) = Shape(ret.nouns)
        /\ Shape(ret.verbs) = Shape(ret.action_scores)

-----------------------------------------------------------------------------
(* scoring.py: top_scores on its own *)

InitTopScores ==
    /\ pc = "call"
    /\ fn = "top_scores"
    /\ exc = NoExc
    /\ ret = None
    /\ UnusedEval /\ UnusedLoad
    /\ \/ scores \in {Array2(m) : m \in Matrices(ScoreValues)}
       \/ scores \in {Array1(v) : v \in Vectors(ScoreValues, MaxCells)}
    /\ top_k \in 0..MaxTopK
    /\ Unused(verb) /\ Unused(noun)
    /\ Unused(rankings) /\ Unused(labels) /\ Unused(ks) /\ Unused(classes)
    /\ Unused(verb_scores) /\ Unused(noun_scores)
    /\ Unused(action_priors) /\ Unused(frame)

\* top_scores of a 1D array: lines 121-123.
TopScores1D ==
    /\ fn = "top_scores"
    /\ pc = "call"
    /\ scores.ndim = 1
    /\ \E sorted \in Argsorts(scores.data) :
          LET t == top_scores(scores.data, top_k, sorted)
          IN  ret' = [idx |-> Array1(t.idx), scores |-> Array1(t.scores)]
    /\ pc' = "done"
    /\ UNCHANGED <<fn, exc, codecVars, rankVars, metricVars, composeVars, evalVars, loadVars>>

\* top_scores of a 2D array: lines 125-127.
TopScores2D ==
    /\ fn = "top_scores"
    /\ pc = "call"
    /\ scores.ndim = 2
    /\ \E sorted \in ArgsortRows(scores.data) :
          LET t == [i \in 1..Len(scores.data) |->
                        top_scores(scores.data[i], top_k, sorted[i])]
          IN  ret' = [idx |-> Array2([i \in 1..Len(t) |-> t[i].idx]),
                      scores |-> Array2([i \in 1..Len(t) |-> t[i].scores])]
    /\ pc' = "done"
    /\ UNCHANGED <<fn, exc, codecVars, rankVars, metricVars, composeVars, evalVars, loadVars>>

NextTopScores == TopScores1D \/ TopScores2D

SpecTopScores == InitTopScores /\ [][NextTopScores]_vars

\* The rows of a 1D array (one row) or of a 2D array.
RowsOf(arr) == IF arr.ndim = 1 THEN <<arr.data>> ELSE arr.data

\* C13: for a 1D vector or a 2D batch with C classes, top_scores returns per
\* row exactly min(top_k, C) distinct class indices and as many scores, the
\* scores are non-increasing, each is the original score at the returned
\* index, and no class left out has a score greater than a returned one.
C13_TopScoresAreTheTopK ==
    (fn = "top_scores" /\ pc = "done") =>
        /\ ret.idx.ndim = scores.ndim /\ ret.scores.ndim = scores.ndim
        /\ Len(RowsOf(ret.idx)) = Len(RowsOf(scores))
        /\ Len(RowsOf(ret.scores)) = Len(RowsOf(scores))
        /\ \A i \in 1..Len(RowsOf(scores)) :
              LET row == RowsOf(scores)[i]
                  idx == RowsOf(ret.idx)[i]
                  top == RowsOf(ret.scores)[i]
                  C == Len(row)
                  n == MinOf(top_k, C)
              IN  /\ Len(idx) = n /\ Len(top) = n
                  /\ \A j \in 1..n : idx[j] \in 0..(C - 1)
                  /\ \A j, l \in 1..n : idx[j] = idx[l] => j = l
                  /\ \A j \in 1..n : top[j] = row[idx[j] + 1]
                  /\ \A j \in 1..(n - 1) : top[j] >= top[j + 1]
                  /\ \A c \in 0..(C - 1) :
                        (\A j \in 1..n : idx[j] # c) =>
                            \A j \in 1..n : row[c + 1] <= top[j]

\* top_scores has cut a vector of three distinct scores to its two best
\* classes.
C13_Witness ==
    /\ fn = "top_scores" /\ pc = "done"
    /\ scores = Array1(<<1, 0, 2>>) /\ top_k = 2
    /\ ret.idx.data = <<2, 0>> /\ ret.scores.data = <<2, 1>>

-----------------------------------------------------------------------------
(* metrics.py: compute_metrics and the functions it calls *)

\* top_k of the call of compute_action_scores in compute_metrics
ComputeMetricsTopK == 100

\* The float nan
NaN == <<0, 0>>

\* .mean() of a 1D array of rationals: nan for an empty array
RatMean(s) == IF s = <<>> THEN NaN ELSE RatDiv(RatSum(s), <<Len(s), 1>>)

\* obj[key] = value for a DataFrame (a function from column names to
\* columns) and for a dict with string keys
SetItem(obj, key, value) ==
    [k \in DOMAIN obj \cup {key} |-> IF k = key THEN value ELSE obj[k]]

\* len(groundtruth_df): every column has that many rows
RowCount(df) == Len(df[CHOOSE c \in DOMAIN df : TRUE])

\* action_id_from_verb_noun applied to two columns
ActionClassColumn(df) ==
    [i \in 1..RowCount(df) |->
        action_id_from_verb_noun(df["verb_class"][i], df["noun_class"][i])]

\* action_tuples_to_ids
action_tuples_to_ids(action_classes) ==
    [j \in 1..Len(action_classes) |->
        action_id_from_verb_noun(action_classes[j][1], action_classes[j][2])]

\* A dict with integer keys is the sequence of its <<key, value>> items in
\* insertion order.  d[k] = v: a key already present keeps its place.
DictSetItem(d, k, v) ==
    IF \E i \in DOMAIN d : d[i][1] = k
    THEN [i \in DOMAIN d |-> IF d[i][1] = k THEN <<k, v>> ELSE d[i]]
    ELSE Append(d, <<k, v>>)

\* {k: v for k, v in zip(keys, values)}
RECURSIVE DictOf(_, _)
DictOf(keys, values) ==
    IF keys = <<>> \/ values = <<>> THEN <<>>
    ELSE LET n == MinOf(Len(keys), Len(values))
         IN  DictSetItem(DictOf(SubSeq(keys, 1, n - 1), SubSeq(values, 1, n - 1)),
                         keys[n], values[n])

\* The number of instances of the product of lines 37-39: numpy broadcasts
\* a batch of one row against any other, and refuses other unequal batches
\* (-1).
BroadcastCount(a, b) ==
    IF a = b THEN a ELSE IF a = 1 THEN b ELSE IF b = 1 THEN a ELSE -1

\* compute_action_scores as a function: every outcome of a call, an
\* exception or the three returned arrays.
compute_action_scores(vs, ns, k, priors) ==
    LET instance_count == BroadcastCount(Shape0(vs), Shape0(ns))
        kv == MinOf(k, ShapeLast(vs))
        kn == MinOf(k, ShapeLast(ns))
        check == PriorsCheck(vs, ns, priors)
    IN  IF instance_count = -1
        THEN {[exc |-> Raise("ValueError", <<"operands could not be broadcast together">>),
               ret |-> None]}
        ELSE IF check.type # "none"
        THEN {[exc |-> check, ret |-> None]}
        ELSE IF ReshapeCheck(instance_count * kv * kn, instance_count).type # "none"
        THEN {[exc |-> ReshapeCheck(instance_count * kv * kn, instance_count),
               ret |-> None]}
        ELSE IF Shape0(vs) # Shape0(ns)
        \* top_verbs[segments, ...] or top_nouns[segments, ...] of the
        \* batch of one row, indexed by every instance
        THEN {[exc |-> Raise("IndexError", <<"index 1 is out of bounds for axis 0 with size 1">>),
               ret |-> None]}
        ELSE {[exc |-> NoExc,
               ret |-> [verbs |-> Array2([i \in 1..instance_count |-> out[i].verbs]),
                        nouns |-> Array2([i \in 1..instance_count |-> out[i].nouns]),
                        action_scores |->
                            Array2([i \in 1..instance_count |-> out[i].action_scores])]] :
                out \in SeqProduct([i \in 1..instance_count |->
                            InstanceOutcomes(vs.data[i], ns.data[i], k, priors)])}

\* Lines 123-129: one dict per instance, from the encoded action id of each
\* returned pair to its score.
ActionDicts(r) ==
    [i \in 1..Len(r.verbs.data) |->
        DictOf([j \in 1..MinOf(Len(r.verbs.data[i]), Len(r.nouns.data[i])) |->
                    action_id_from_verb_noun(r.verbs.data[i][j], r.nouns.data[i][j])],
               r.action_scores.data[i])]

\* Lines 119-129: the scores dict after the action scores are derived, or
\* the exception that stops the call.
DeriveActionScores(sc, priors) ==
    IF "action" \in DOMAIN sc
    THEN {[exc |-> NoExc, scores |-> sc]}
    ELSE IF "verb" \notin DOMAIN sc
    THEN {[exc |-> Raise("KeyError", <<"verb">>), scores |-> sc]}
    ELSE IF "noun" \notin DOMAIN sc
    THEN {[exc |-> Raise("KeyError", <<"noun">>), scores |-> sc]}
    ELSE {IF r.exc.type # "none"
          THEN [exc |-> r.exc, scores |-> sc]
          ELSE [exc |-> NoExc,
                scores |-> SetItem(sc, "action", [list |-> ActionDicts(r.ret)])] :
            r \in compute_action_scores(sc["verb"], sc["noun"], ComputeMetricsTopK, priors)}

\* np.array(ranks) of a list of rows: 2D when there are rows of one length,
\* otherwise an array of one dimension.
NpArray(rows) ==
    IF rows # <<>> /\ \A i \in DOMAIN rows : Len(rows[i]) = Len(rows[1])
    THEN Array2(rows)
    ELSE Array1(rows)

\* A plausible slip: the argsort of the scores used without the reversal.
DictRankRows_Ascending(d) ==
    {[j \in 1..Len(d) |-> d[sorted[j] + 1][1]] :
        sorted \in RatArgsorts([j \in 1..Len(d) |-> d[j][2]])}

\* class_ids[np.argsort(score_array)[::-1]] for one dict
DictRankRows(d) ==
    {[j \in 1..Len(d) |-> d[Reverse(sorted)[j] + 1][1]] :
        sorted \in RatArgsorts([j \in 1..Len(d) |-> d[j][2]])}

\* _scores_dict_to_ranks
_scores_dict_to_ranks(lst) ==
    {NpArray(rows) : rows \in SeqProduct([i \in 1..Len(lst) |-> DictRankRows(lst[i])])}

\* scores_to_ranks of an ndarray or of a list of dicts: every outcome.
scores_to_ranks(value) ==
    IF "ndim" \in DOMAIN value
    THEN IF value.ndim # 2
         THEN {[exc |-> Raise("AssertionError", <<"Expected scores to be 2D">>), ret |-> None]}
         ELSE {[exc |-> NoExc, ret |-> Array2(_scores_array_to_ranks(value.data, sorted))] :
                 sorted \in ArgsortRows(value.data)}
    ELSE {[exc |-> NoExc, ret |-> a] : a \in _scores_dict_to_ranks(value.list)}

\* The ranks of one task, when the scores have that task.
TaskRanks(sc, task) ==
    IF task \in DOMAIN sc THEN scores_to_ranks(sc[task]) ELSE {[exc |-> NoExc, ret |-> None]}

\* scores_dict_to_ranks: the ranks of every task of the scores.
scores_dict_to_ranks(sc) ==
    {IF v.exc.type # "none" THEN [exc |-> v.exc, ret |-> None]
     ELSE IF n.exc.type # "none" THEN [exc |-> n.exc, ret |-> None]
     ELSE IF a.exc.type # "none" THEN [exc |-> a.exc, ret |-> None]
     ELSE [exc |-> NoExc,
           ret |-> [task \in DOMAIN sc |->
                        CASE task = "verb" -> v.ret
                          [] task = "noun" -> n.ret
                          [] OTHER -> a.ret]] :
        v \in TaskRanks(sc, "verb"), n \in TaskRanks(sc, "noun"),
        a \in TaskRanks(sc, "action")}

\* A plausible slip: the action accuracy computed at 1 and at the largest k
\* of top_k.
ActionKs_TopK(top_k_) == [tuple |-> <<1, TrimK(KsTuple(top_k_))>>]

\* The ks of the action accuracy: topk_accuracy is called without ks, so
\* its default applies.
ActionKs(top_k_) == DefaultKs

\* compute_class_aware_metrics: the exception raised and the value returned.
compute_class_aware_metrics(df, ranks, top_k_) ==
    IF "verb" \notin DOMAIN ranks
    THEN [exc |-> Raise("KeyError", <<"verb">>), ret |-> None]
    ELSE LET verb_accuracies ==
                topk_accuracy(ranks["verb"], Array1(df["verb_class"]), top_k_)
         IN  IF verb_accuracies.exc.type # "none" THEN verb_accuracies
    ELSE IF "noun" \notin DOMAIN ranks
    THEN [exc |-> Raise("KeyError", <<"noun">>), ret |-> None]
    ELSE LET noun_accuracies ==
                topk_accuracy(ranks["noun"], Array1(df["noun_class"]), top_k_)
         IN  IF noun_accuracies.exc.type # "none" THEN noun_accuracies
    ELSE LET action_accuracies ==
                topk_accuracy(ranks["action"], Array1(df["action_class"]),
                              ActionKs(top_k_))
         IN  IF action_accuracies.exc.type # "none" THEN action_accuracies
    ELSE [exc |-> NoExc,
          ret |-> [verb |-> verb_accuracies.ret,
                   noun |-> noun_accuracies.ret,
                   action |-> action_accuracies.ret]]

\* A plausible slip: the many-shot classes passed on as given.
_exclude_non_existent_classes_Keep(cls, lab) == cls

\* _exclude_non_existent_classes: np.intersect1d(classes, labels.unique())
_exclude_non_existent_classes(cls, lab) ==
    SortedSeq({cls[j] : j \in DOMAIN cls} \cap {lab[i] : i \in DOMAIN lab})

\* A plausible slip: the per-class breakdown keyed by the position of the
\* class among the many-shot classes.
PerClass_ByPosition(many, values) ==
    [key \in {ToString(j - 1) : j \in DOMAIN many} |->
        values[CHOOSE j \in DOMAIN many : ToString(j - 1) = key]]

\* {str(verb): score for verb, score in zip(many_shot_verbs, scores)}
PerClass(many, values) ==
    [key \in {ToString(many[j]) : j \in DOMAIN many} |->
        values[CHOOSE j \in DOMAIN many : ToString(many[j]) = key]]

\* compute_class_agnostic_metrics, given all three many-shot arrays and
\* ranks of all three tasks: the exception raised and the value returned.
compute_class_agnostic_metrics(df, ranks, msv, msn, msa) ==
    LET many_verbs == _exclude_non_existent_classes(msv, df["verb_class"])
        many_nouns == _exclude_non_existent_classes(msn, df["noun_class"])
        many_actions == _exclude_non_existent_classes(msa, df["action_class"])
        v == precision_recall(ranks["verb"], Array1(df["verb_class"]),
                              Some(Array1(many_verbs)))
        n == precision_recall(ranks["noun"], Array1(df["noun_class"]),
                              Some(Array1(many_nouns)))
        a == precision_recall(ranks["action"], Array1(df["action_class"]),
                              Some(Array1(many_actions)))
    IN  IF v.exc.type # "none" THEN v
        ELSE IF n.exc.type # "none" THEN n
        ELSE IF a.exc.type # "none" THEN a
        ELSE [exc |-> NoExc,
              ret |-> [precision |->
                          [action |-> RatMean(a.ret.precision),
                           verb |-> RatMean(v.ret.precision),
                           noun |-> RatMean(n.ret.precision),
                           verb_per_class |-> PerClass(many_verbs, v.ret.precision)],
                       recall |->
                          [action |-> RatMean(a.ret.recall),
                           verb |-> RatMean(v.ret.recall),
                           noun |-> RatMean(n.ret.recall),
                           verb_per_class |-> PerClass(many_verbs, v.ret.recall)]]]

\* The top_k compute_metrics passes to compute_class_aware_metrics
MetricsKs == [tuple |-> <<1, 5>>]

\* Lines 131-146 of compute_metrics for one outcome of the ranking: the
\* exception raised and the value returned.
MetricsOfRanks(df, r, msv, msn, msa) ==
    IF r.exc.type # "none" THEN r
    ELSE LET accuracies == compute_class_aware_metrics(df, r.ret, MetricsKs)
         IN  IF accuracies.exc.type # "none" THEN accuracies
    ELSE LET precision_recall_metrics ==
                compute_class_agnostic_metrics(df, r.ret, msv, msn, msa)
         IN  IF precision_recall_metrics.exc.type # "none" THEN precision_recall_metrics
    ELSE [exc |-> NoExc,
          ret |-> [accuracy |-> [verb |-> accuracies.ret.verb,
                                 noun |-> accuracies.ret.noun,
                                 action |-> accuracies.ret.action],
                   precision |-> precision_recall_metrics.ret.precision,
                   recall |-> precision_recall_metrics.ret.recall]]

\* compute_metrics with the many-shot classes given: every outcome of a
\* call, as the exception raised, the value returned and the caller's
\* groundtruth_df and scores as the call leaves them.
compute_metrics(df, sc, msv, msn, msa, priors) ==
    LET many_shot_action_ids == action_tuples_to_ids(msa)
    IN  IF "verb_class" \notin DOMAIN df
        THEN {[exc |-> Raise("ValueError", <<"Expected 'verb_class' column in groundtruth_df">>),
               ret |-> None, groundtruth_df |-> df, scores |-> sc]}
        ELSE IF "noun_class" \notin DOMAIN df
        THEN {[exc |-> Raise("ValueError", <<"Expected 'noun_class' column in groundtruth_df">>),
               ret |-> None, groundtruth_df |-> df, scores |-> sc]}
        ELSE LET df1 == SetItem(df, "action_class", ActionClassColumn(df))
             IN  UNION {
                   IF d.exc.type # "none"
                   THEN {[exc |-> d.exc, ret |-> None,
                          groundtruth_df |-> df1, scores |-> d.scores]}
                   ELSE {LET m == MetricsOfRanks(df1, r, msv.data, msn.data,
                                                 many_shot_action_ids)
                         IN  [exc |-> m.exc, ret |-> m.ret,
                              groundtruth_df |-> df1, scores |-> d.scores] :
                            r \in scores_dict_to_ranks(d.scores)}
                   : d \in DeriveActionScores(sc, priors)}

-----------------------------------------------------------------------------
(* metrics.py: calls of compute_metrics on one groundtruth_df and scores *)

\* At most MaxCalls calls are made on the caller's objects.
MaxCalls == 2

\* The score rows of the enumerated calls: two verb classes, two noun
\* classes.  No two pairs of these verb and noun scores have equal composed
\* scores; TiedNounScoreRow gives both nouns and all pairs of a verb the
\* same score.
VerbScoreRows == {<<0, 1>>, <<1, 0>>}
NounScoreRows == {<<0, 2>>, <<2, 0>>}
TiedNounScoreRow == <<0, 0>>

\* The (verb_class, noun_class) rows of the enumerated ground truths; the
\* scores have no column for verb class 2.
TruthRows == {<<0, 0>>, <<1, 0>>, <<1, 1>>, <<2, 1>>}

\* The enumerated action priors: none, or counts that make (0, 1) the best
\* action whatever the scores above.
PriorsChoices == {None, Some(Array2(<< <<1, 16>>, <<1, 1>> >>))}

\* A groundtruth_df of the given rows with the columns cols.
TruthTable(rows, cols) ==
    [c \in cols |-> [i \in 1..Len(rows) |->
                        IF c = "verb_class" THEN rows[i][1] ELSE rows[i][2]]]

\* A scores dict with the tasks `tasks`.
ScoresDict(vs, ns, tasks) ==
    [t \in tasks |-> IF t = "verb" THEN vs ELSE ns]

InitComputeMetrics ==
    /\ pc = "call"
    /\ fn = "compute_metrics"
    /\ exc = NoExc
    /\ ret = None
    /\ UnusedLoad
    /\ Unused(verb) /\ Unused(noun)
    /\ Unused(rankings) /\ Unused(labels) /\ Unused(ks) /\ Unused(classes)
    /\ Unused(verb_scores) /\ Unused(noun_scores) /\ Unused(top_k) /\ Unused(frame)
    /\ action_priors = None
    /\ calls = 0
    /\ many_shot_nouns = Array1(<<0, 1>>)
    /\ many_shot_actions = << <<0, 0>>, <<1, 1>>, <<2, 0>> >>
    /\ many_shot_verbs \in {Array1(<<0, 1>>), Array1(<<1, 2>>)}
    /\ \E n \in 1..2 :
          \* well-formed inputs: as many score rows as ground-truth rows
          \/ /\ groundtruth_df \in
                    {TruthTable(rows, {"verb_class", "noun_class"}) :
                        rows \in [1..n -> TruthRows]}
             /\ scores \in
                    {ScoresDict(Array2(vs), Array2(ns), {"verb", "noun"}) :
                        vs \in [1..n -> VerbScoreRows],
                        ns \in [1..n -> NounScoreRows]
                                \cup (IF n = 1 THEN {<<TiedNounScoreRow>>} ELSE {})}
          \* a missing ground-truth column, a missing task, a score array
          \* with another number of rows
          \/ /\ groundtruth_df \in
                    {TruthTable([i \in 1..n |-> <<0, 1>>], cols) :
                        cols \in {{"verb_class", "noun_class"}, {"verb_class"},
                                  {"noun_class"}}}
             /\ \E nv, nn \in 0..2, tasks \in {{"verb", "noun"}, {"verb"}, {"noun"}} :
                   /\ tasks # {"verb", "noun"} \/ nv # n \/ nn # n
                         \/ DOMAIN groundtruth_df # {"verb_class", "noun_class"}
                   /\ scores =
                        ScoresDict(
                            IF nv = 0 THEN EmptyArray2(2)
                            ELSE Array2([i \in 1..nv |-> <<0, 1>>]),
                            IF nn = 0 THEN EmptyArray2(2)
                            ELSE Array2([i \in 1..nn |-> <<2, 0>>]),
                            tasks)
    /\ given = [groundtruth_df |-> groundtruth_df, scores |-> scores]
    /\ before = given

\* One call compute_metrics(groundtruth_df, scores, many_shot_verbs,
\* many_shot_nouns, many_shot_actions, action_priors) on the caller's
\* objects, with the action priors of this call.
ComputeMetrics ==
    /\ fn = "compute_metrics"
    /\ calls < MaxCalls
    /\ \E priors \in PriorsChoices :
          /\ action_priors' = priors
          /\ \E out \in compute_metrics(groundtruth_df, scores, many_shot_verbs,
                                        many_shot_nouns, many_shot_actions, priors) :
                /\ exc' = out.exc
                /\ ret' = out.ret
                /\ pc' = IF out.exc.type = "none" THEN "done" ELSE "raised"
                /\ groundtruth_df' = out.groundtruth_df
                /\ scores' = out.scores
    /\ before' = [groundtruth_df |-> groundtruth_df, scores |-> scores]
    /\ calls' = calls + 1
    /\ UNCHANGED <<fn, codecVars, rankings, labels, ks, classes, verb_scores,
                   noun_scores, top_k, frame, evalArgs, given, loadVars>>

SpecComputeMetrics == InitComputeMetrics /\ [][ComputeMetrics]_vars

\* C14 as stated: compute_metrics is pure: whatever calls came before on the
\* same groundtruth_df and scores objects, a call returns (or raises) what
\* a call with the same action_priors on fresh copies of the inputs as the
\* caller built them would.
C14_CallsArePure ==
    (fn = "compute_metrics" /\ calls > 0) =>
        \E fresh \in compute_metrics(given.groundtruth_df, given.scores,
                                     many_shot_verbs, many_shot_nouns,
                                     many_shot_actions, action_priors) :
            /\ fresh.exc.type = exc.type
            /\ fresh.ret = ret

\* C15 as stated: a successful call of compute_metrics changes nothing of
\* the caller's inputs but the action_class column it adds to
\* groundtruth_df: scores keeps exactly the keys and arrays it had when the
\* call began.
C15_OnlyActionClassAdded ==
    (fn = "compute_metrics" /\ calls > 0 /\ pc = "done") =>
        /\ DOMAIN scores = DOMAIN before.scores
        /\ \A task \in DOMAIN before.scores : scores[task] = before.scores[task]
        /\ DOMAIN groundtruth_df = DOMAIN before.groundtruth_df \cup {"action_class"}
        /\ \A c \in DOMAIN before.groundtruth_df \ {"action_class"} :
              groundtruth_df[c] = before.groundtruth_df[c]

\* The call that just ended was given scores without the task, or with a
\* score array of the task whose number of rows is not that of
\* groundtruth_df.
TaskMissing(task) == task \notin DOMAIN before.scores

RowsDiffer(task) ==
    /\ task \in DOMAIN before.scores
    /\ Shape0(before.scores[task]) # RowCount(before.groundtruth_df)

\* C16 as stated: when scores lacks 'verb' or 'noun', or a score array's
\* number of rows differs from that of groundtruth_df, compute_metrics
\* raises ValueError: no other kind of error escapes and nothing is
\* returned.
C16_BadScoresRaiseValueError ==
    (fn = "compute_metrics" /\ calls > 0
        /\ (TaskMissing("verb") \/ TaskMissing("noun")
                \/ RowsDiffer("verb") \/ RowsDiffer("noun"))) =>
        /\ pc = "raised"
        /\ exc.type = "ValueError"

\* The class with the highest score of a row whose scores all differ.
ArgMax(row) == CHOOSE c \in 0..(Len(row) - 1) : \A d \in 0..(Len(row) - 1) : row[d + 1] <= row[c + 1]

\* The precision and recall of verb class c from the top-1 verb of every
\* instance (0 when the denominator is 0).
VerbPrediction(i) == ArgMax(scores["verb"].data[i])

VerbPrecision(c) ==
    LET predicted == {i \in 1..RowCount(groundtruth_df) : VerbPrediction(i) = c}
        correct == {i \in predicted : groundtruth_df["verb_class"][i] = c}
    IN  IF predicted = {} THEN <<0, 1>>
        ELSE Rat(Cardinality(correct), Cardinality(predicted))

VerbRecall(c) ==
    LET actual == {i \in 1..RowCount(groundtruth_df) : groundtruth_df["verb_class"][i] = c}
        correct == {i \in actual : VerbPrediction(i) = c}
    IN  IF actual = {} THEN <<0, 1>>
        ELSE Rat(Cardinality(correct), Cardinality(actual))

\* A float: a rational or nan.
IsScalar(x) == x \in Nat \X Nat

-----------------------------------------------------------------------------
(* metrics.py: compute_class_aware_metrics on its own *)

\* The rank rows of the enumerated calls: two verb classes, two noun
\* classes, and three of the actions they encode.
TaskRankRows == {<<0, 1>>, <<1, 0>>}
ActionRankRows == {<<0, 352, 353>>, <<352, 353, 0>>, <<353, 0, 352>>}

InitClassAware ==
    /\ pc = "call"
    /\ fn = "compute_class_aware_metrics"
    /\ exc = NoExc
    /\ ret = None
    /\ UnusedLoad
    /\ Unused(verb) /\ Unused(noun) /\ Unused(scores)
    /\ Unused(labels) /\ Unused(classes)
    /\ Unused(verb_scores) /\ Unused(noun_scores) /\ Unused(top_k)
    /\ Unused(action_priors) /\ Unused(frame)
    /\ Unused(many_shot_verbs) /\ Unused(many_shot_nouns) /\ Unused(many_shot_actions)
    /\ Unused(given) /\ Unused(before) /\ Unused(calls)
    /\ ks \in KsChoices \cup {DefaultKs}
    /\ \E n \in 1..2 :
          /\ groundtruth_df \in
                {LET df == TruthTable(rows, {"verb_class", "noun_class"})
                 IN  SetItem(df, "action_class", ActionClassColumn(df)) :
                    rows \in [1..n -> TruthRows]}
          /\ rankings \in
                {[verb |-> Array2(v), noun |-> Array2(w), action |-> Array2(a)] :
                    v \in [1..n -> TaskRankRows], w \in [1..n -> TaskRankRows],
                    a \in [1..n -> ActionRankRows]}

\* One call compute_class_aware_metrics(groundtruth_df, ranks, top_k): ks
\* holds top_k and rankings holds ranks.
ClassAwareMetrics ==
    /\ fn = "compute_class_aware_metrics"
    /\ pc = "call"
    /\ LET r == compute_class_aware_metrics(groundtruth_df, rankings, ks)
       IN  /\ exc' = r.exc
           /\ ret' = r.ret
           /\ pc' = IF r.exc.type = "none" THEN "done" ELSE "raised"
    /\ UNCHANGED <<fn, codecVars, rankVars, metricVars, composeVars, evalVars, loadVars>>

SpecClassAware == InitClassAware /\ [][ClassAwareMetrics]_vars

\* The fraction of the instances whose label is among the first k entries
\* of their row of ranks.
HitFraction(ranks, lab, k) ==
    Rat(Cardinality({i \in 1..Len(ranks) :
                        \E j \in 1..MinOf(k, Len(ranks[i])) : ranks[i][j] = lab[i]}),
        Len(ranks))

\* The accuracies at the k values kt: one value for a single k, a list
\* otherwise.
AccuraciesAt(ranks, lab, kt) ==
    IF Len(kt) = 1 THEN HitFraction(ranks, lab, kt[1])
    ELSE [j \in 1..Len(kt) |-> HitFraction(ranks, lab, kt[j])]

-----------------------------------------------------------------------------
(* internal/loading.py and meta.py: the annotation repositories *)

\* At most MaxLoadCalls calls of set_version, set_datadir and load_file are
\* made.
MaxLoadCalls == 4

\* The version of the repository meta.py creates on import, and another one.
DefaultVersion == "v1.5.0"
Versions == {"v1.5.0", "v1.4.0"}

\* The directories passed to set_datadir.  A path is the sequence of its
\* components.
DataDirs == {<<"data">>}

\* The files asked for: one with a loader, one of a file type without.
FileNames == {"EPIC_verb_classes.csv", "README.md"}

\* Loaders.__getitem__: whether a loader is registered for the file name or
\* for its file type (csv, pkl).
HasLoader(name) == name \in {"EPIC_verb_classes.csv"}

\* A dict without items
EmptyDict == [k \in {} |-> k]

\* HttpFolder.__init__
HttpFolder(base_url, local_dir) ==
    [base_url |-> base_url, local_dir |-> local_dir, files |-> EmptyDict]

\* AnnotationRepository.__init__
AnnotationRepository(version, local_dir) ==
    LET base_url == <<"https://github.com/epic-kitchens/annotations/raw", version>>
        cache_dir == <<"cache">>
    IN  [version |-> version,
         http_folder |->
            HttpFolder(base_url,
                       IF IsNone(local_dir)
                       THEN cache_dir \o <<"epic_kitchens", version>>
                       ELSE local_dir.some)]

\* The state after `import epic_kitchens.meta`, with no file on disk.
InitLoading ==
    /\ pc = "call"
    /\ fn = "import"
    /\ exc = NoExc
    /\ ret = None
    /\ frame = None
    /\ Unused(verb) /\ Unused(noun) /\ Unused(scores)
    /\ Unused(rankings) /\ Unused(labels) /\ Unused(ks) /\ Unused(classes)
    /\ Unused(verb_scores) /\ Unused(noun_scores) /\ Unused(top_k)
    /\ Unused(action_priors)
    /\ Unused(groundtruth_df) /\ Unused(many_shot_verbs) /\ Unused(many_shot_nouns)
    /\ Unused(many_shot_actions) /\ Unused(given) /\ Unused(before)
    /\ calls = 0
    /\ _annotation_repositories =
            [v \in {DefaultVersion} |-> AnnotationRepository(v, None)]
    /\ _annotation_repository = DefaultVersion
    /\ disk = EmptyDict
    /\ log = <<>>

loadingFrame == <<verb, noun, scores, rankings, labels, ks, classes, verb_scores,
                  noun_scores, top_k, action_priors, groundtruth_df, evalArgs,
                  given, before>>

\* meta.set_version(version)
SetVersion ==
    /\ fn \in {"import", "set_version", "set_datadir", "load_file"}
    /\ calls < MaxLoadCalls
    /\ \E version \in Versions :
          /\ _annotation_repositories' =
                IF version \notin DOMAIN _annotation_repositories
                THEN SetItem(_annotation_repositories, version,
                             AnnotationRepository(version,
                                Some(_annotation_repositories[_annotation_repository]
                                        .http_folder.local_dir)))
                ELSE _annotation_repositories
          /\ _annotation_repository' = version
          /\ frame' = [version |-> version]
    /\ fn' = "set_version"
    /\ pc' = "done"
    /\ exc' = NoExc
    /\ ret' = None
    /\ calls' = calls + 1
    /\ UNCHANGED <<loadingFrame, disk, log>>

\* meta.set_datadir(dir_)
SetDatadir ==
    /\ fn \in {"import", "set_version", "set_datadir", "load_file"}
    /\ calls < MaxLoadCalls
    /\ \E dir_ \in DataDirs :
          /\ _annotation_repositories' =
                [_annotation_repositories EXCEPT
                    ![_annotation_repository].http_folder.local_dir = dir_]
          /\ frame' = [dir_ |-> dir_]
    /\ fn' = "set_datadir"
    /\ pc' = "done"
    /\ exc' = NoExc
    /\ ret' = None
    /\ calls' = calls + 1
    /\ UNCHANGED <<loadingFrame, _annotation_repository, disk, log>>

\* An entry of the log: a call of load_file, a download attempted or a
\* loader invoked by the HttpFolder of the repository `folder`, and whether
\* it succeeded.
Event(op, folder, name, file_path, ok) ==
    [op |-> op, folder |-> folder, name |-> name, file_path |-> file_path, ok |-> ok]

\* A plausible slip: the cache of loaded files never consulted.
Cached_Never(files, name) == FALSE

\* name in self.files
Cached(files, name) == name \in DOMAIN files

\* HttpFolder.load_file(name) on the active repository.  urlretrieve and the
\* loader may raise; the object a loader returns is new, and records the
\* file it was read from and the version that file was downloaded from.
LoadFile ==
    /\ fn \in {"import", "set_version", "set_datadir", "load_file"}
    /\ calls < MaxLoadCalls
    /\ \E name \in FileNames, download_ok \in BOOLEAN, loader_ok \in BOOLEAN :
          LET folder == _annotation_repositories[_annotation_repository].http_folder
              file_path == folder.local_dir \o <<name>>
              url == folder.base_url \o <<name>>
              exists == file_path \in DOMAIN disk
              downloaded == Event("download", _annotation_repository, name, file_path,
                                  download_ok)
              loaded == Event("loader", _annotation_repository, name, file_path,
                              loader_ok)
              called == Event("load_file", _annotation_repository, name, file_path, TRUE)
              log0 == Append(log, called)
              log1 == IF exists THEN log0 ELSE Append(log0, downloaded)
              disk1 == IF exists \/ ~download_ok THEN disk
                       ELSE SetItem(disk, file_path, url[2])
          IN  /\ frame' = [name |-> name]
              /\ IF Cached(folder.files, name)
                 THEN /\ download_ok /\ loader_ok
                      /\ ret' = folder.files[name]
                      /\ pc' = "done" /\ exc' = NoExc
                      /\ log' = log0
                      /\ UNCHANGED <<_annotation_repositories, disk>>
                 ELSE IF ~exists /\ ~download_ok
                 THEN /\ loader_ok
                      /\ exc' = Raise("URLError", <<url>>)
                      /\ pc' = "raised" /\ ret' = None
                      /\ log' = log1
                      /\ UNCHANGED <<_annotation_repositories, disk>>
                 ELSE IF ~HasLoader(name)
                 THEN /\ loader_ok /\ (exists => download_ok)
                      /\ exc' = Raise("KeyError", <<name>>)
                      /\ pc' = "raised" /\ ret' = None
                      /\ log' = log1 /\ disk' = disk1
                      /\ UNCHANGED _annotation_repositories
                 ELSE IF ~loader_ok
                 THEN /\ (exists => download_ok)
                      /\ exc' = Raise("ParserError", <<file_path>>)
                      /\ pc' = "raised" /\ ret' = None
                      /\ log' = Append(log1, loaded) /\ disk' = disk1
                      /\ UNCHANGED _annotation_repositories
                 ELSE /\ (exists => download_ok)
                      /\ LET obj == [id |-> Len(log1) + 1, file_path |-> file_path,
                                     content |-> disk1[file_path]]
                         IN  /\ ret' = obj
                             /\ _annotation_repositories' =
                                    [_annotation_repositories EXCEPT
                                        ![_annotation_repository].http_folder.files =
                                            SetItem(folder.files, name, obj)]
                      /\ pc' = "done" /\ exc' = NoExc
                      /\ log' = Append(log1, loaded) /\ disk' = disk1
    /\ fn' = "load_file"
    /\ calls' = calls + 1
    /\ UNCHANGED <<loadingFrame, _annotation_repository>>

NextLoading == SetVersion \/ SetDatadir \/ LoadFile

SpecLoading == InitLoading /\ [][NextLoading]_vars

\* The log entries of the HttpFolder of repository v for the file name.
EventsOf(v, name) == {i \in DOMAIN log : log[i].folder = v /\ log[i].name = name}

\* The invocations of the loader among them, and those that returned.
LoaderRuns(v, name) == {i \in EventsOf(v, name) : log[i].op = "loader"}
LoaderReturns(v, name) == {i \in LoaderRuns(v, name) : log[i].ok}

\* C19 as stated: in any sequence of load_file calls on one HttpFolder, the
\* loader of a file name is invoked at most once.
C19_LoaderInvokedAtMostOnce ==
    (fn \in {"set_version", "set_datadir", "load_file"}) =>
        \A v \in DOMAIN _annotation_repositories, name \in FileNames :
            Cardinality(LoaderRuns(v, name)) <= 1

\* C19 (amended): for one HttpFolder and file name, the loader returns at
\* most once; its result is stored, and every later load_file(name) returns
\* that stored object with no loader invoked and no download attempted
\* after the loader returned.  A call whose download or loader raised
\* stores nothing.
C19_LoadedAtMostOnce ==
    (fn \in {"set_version", "set_datadir", "load_file"}) =>
        \A v \in DOMAIN _annotation_repositories, name \in FileNames :
            LET files == _annotation_repositories[v].http_folder.files
            IN  /\ Cardinality(LoaderReturns(v, name)) <= 1
                /\ \A i \in LoaderReturns(v, name), j \in EventsOf(v, name) :
                      j > i => log[j].op = "load_file"
                /\ name \in DOMAIN files <=> LoaderReturns(v, name) # {}
                /\ name \in DOMAIN files =>
                      /\ files[name].id \in LoaderReturns(v, name)
                      /\ files[name].file_path = log[files[name].id].file_path
                /\ (fn = "load_file" /\ pc = "done" /\ v = _annotation_repository
                        /\ name = frame.name) =>
                      ret = files[name]

\* A load_file whose loader raised was followed by one whose loader
\* returned, and a third call got the stored object.
C19_Witness ==
    /\ fn = "load_file" /\ pc = "done"
    /\ \E i, j, l \in DOMAIN log :
          /\ i < j /\ j < l /\ l = Len(log)
          /\ log[i].op = "loader" /\ ~log[i].ok
          /\ log[j].op = "loader" /\ log[j].ok
          /\ log[l].op = "load_file"
          /\ log[i].folder = log[l].folder /\ log[j].folder = log[l].folder
          /\ log[i].name = log[l].name /\ log[j].name = log[l].name
          /\ ret.id = j

\* C20 as stated: the active repository of version v downloads from the URL
\* of version v into a directory whose path contains v, and no repository
\* holds as its data a file downloaded for another version.
C20_VersionSpecificStorage ==
    (fn \in {"set_version", "set_datadir", "load_file"}) =>
        LET folder == _annotation_repositories[_annotation_repository].http_folder
        IN  /\ folder.base_url[2] = _annotation_repository
            /\ \E c \in DOMAIN folder.local_dir :
                  folder.local_dir[c] = _annotation_repository
            /\ \A v \in DOMAIN _annotation_repositories :
                  \A name \in DOMAIN _annotation_repositories[v].http_folder.files :
                      _annotation_repositories[v].http_folder.files[name].content = v

-----------------------------------------------------------------------------
(* scoring.py: the pairs compute_action_scores returns *)

\* The composed score of the candidate pair (v, n) of instance i: the
\* product of the two softmax probabilities among the retained classes,
\* times the prior of the pair when priors are given.
ComposedScore(i, v, n) ==
    LET pv == ProbAmong(verb_scores.data[i], frame.top_verbs[i], v)
        pn == ProbAmong(noun_scores.data[i], frame.top_nouns[i], n)
        prior == IF IsNone(action_priors) THEN <<1, 1>>
                 ELSE <<action_priors.some.data[v + 1][n + 1], 1>>
    IN  RatMul(RatMul(pv, pn), prior)

\* The candidate pairs of instance i: retained verbs x retained nouns.
CandidatePairs(i) ==
    {<<frame.top_verbs[i][a], frame.top_nouns[i][b]>> :
        a \in 1..Len(frame.top_verbs[i]), b \in 1..Len(frame.top_nouns[i])}

\* The pairs returned for instance i, in order.
ReturnedPairs(i) ==
    [j \in 1..Len(ret.verbs.data[i]) |-> <<ret.verbs.data[i][j], ret.nouns.data[i][j]>>]

\* C21: for each instance the returned pairs are min(top_k, candidates)
\* distinct candidate pairs, no candidate pair that is not returned has a
\* composed score strictly greater than a returned pair, and without priors
\* the first returned pair is made of a verb and a noun of highest score.
C21_ReturnedPairsAreTheTopK ==
    (fn = "compute_action_scores" /\ pc = "done") =>
        \A i \in 1..Shape0(verb_scores) :
            LET pairs == ReturnedPairs(i)
                returned == {pairs[j] : j \in 1..Len(pairs)}
            IN  /\ returned \subseteq CandidatePairs(i)
                /\ Len(pairs) = MinOf(top_k, Cardinality(CandidatePairs(i)))
                /\ Injective(pairs)
                /\ \A c \in CandidatePairs(i) \ returned : \A r \in returned :
                      RatLeq(ComposedScore(i, c[1], c[2]), ComposedScore(i, r[1], r[2]))
                /\ IsNone(action_priors) =>
                      /\ verb_scores.data[i][pairs[1][1] + 1] = SeqMax(verb_scores.data[i])
                      /\ noun_scores.data[i][pairs[1][2] + 1] = SeqMax(noun_scores.data[i])

\* A call without priors on 2 verbs and 2 nouns with top_k = 2 has returned
\* two of the four candidate pairs, the best verb being class 1 and the
\* best noun class 1, and a candidate pair left out scores strictly less
\* than both.
C21_Witness ==
    /\ fn = "compute_action_scores" /\ pc = "done"
    /\ IsNone(action_priors)
    /\ top_k = 2
    /\ verb_scores.data = << <<0, 2>> >>
    /\ noun_scores.data = << <<0, 1>> >>
    /\ ReturnedPairs(1)[1] = <<1, 1>>
    /\ Len(ReturnedPairs(1)) = 2
    /\ \E c \in CandidatePairs(1) :
          /\ \A j \in 1..2 : c # ReturnedPairs(1)[j]
          /\ \A j \in 1..2 : ~RatLeq(ret.action_scores.data[1][j],
                                     ComposedScore(1, c[1], c[2]))

-----------------------------------------------------------------------------
(* metrics.py: the action scores compute_metrics leaves in scores *)

\* The instances of the call that just ended.
Instances == 1..RowCount(groundtruth_df)

\* The action scores of instance i after the call: a dict from encoded
\* action id to score.
ActionItems(i) == scores["action"].list[i]

\* The rankings of the action ids of instance i: every ordering of the keys
\* by non-increasing score.
DescendingActionRows(i) ==
    {[j \in 1..Len(ActionItems(i)) |-> ActionItems(i)[p[j] + 1][1]] :
        p \in {q \in Perms(Len(ActionItems(i))) :
                \A j \in 1..(Len(ActionItems(i)) - 1) :
                    RatLeq(ActionItems(i)[q[j + 1] + 1][2], ActionItems(i)[q[j] + 1][2])}}

-----------------------------------------------------------------------------
(* metrics.py: the class-agnostic metrics of compute_metrics *)

\* The ground-truth column of a task.
TruthColumn(task) == groundtruth_df[task \o "_class"]

\* The many-shot class ids of a task.
ManyShot(task) ==
    CASE task = "verb" -> {many_shot_verbs.data[j] : j \in DOMAIN many_shot_verbs.data}
      [] task = "noun" -> {many_shot_nouns.data[j] : j \in DOMAIN many_shot_nouns.data}
      [] OTHER -> {many_shot_actions[j][1] * 352 + many_shot_actions[j][2] :
                      j \in DOMAIN many_shot_actions}

\* The many-shot classes of a task that occur in its ground-truth column, in
\* ascending order.
ManyShotPresent(task) ==
    SortedSeq(ManyShot(task) \cap {TruthColumn(task)[i] : i \in Instances})

\* The possible top-1 predictions of a task: for every instance a class of
\* highest score.
TopPredictions(task) ==
    IF task = "action"
    THEN {[i \in Instances |-> R[i][1]] :
            R \in SeqProduct([i \in Instances |-> DescendingActionRows(i)])}
    ELSE LET best(i) ==
                {c \in 0..(Len(scores[task].data[i]) - 1) :
                    scores[task].data[i][c + 1] = SeqMax(scores[task].data[i])}
         IN  {p \in [Instances -> 0..(ShapeLast(scores[task]) - 1)] :
                \A i \in Instances : p[i] \in best(i)}

\* The precision and the recall of class c for the predictions pred: 0 when
\* the class is never predicted (resp. never the truth).
ClassPrecision(task, pred, c) ==
    LET predicted == {i \in Instances : pred[i] = c}
        correct == {i \in predicted : TruthColumn(task)[i] = c}
    IN  IF predicted = {} THEN <<0, 1>>
        ELSE Rat(Cardinality(correct), Cardinality(predicted))

ClassRecall(task, pred, c) ==
    LET actual == {i \in Instances : TruthColumn(task)[i] = c}
        correct == {i \in actual : pred[i] = c}
    IN  IF actual = {} THEN <<0, 1>>
        ELSE Rat(Cardinality(correct), Cardinality(actual))

\* The call that just ended was given both ground-truth columns and verb
\* and noun scores with one row per ground-truth row.
WellFormedCall ==
    /\ {"verb_class", "noun_class"} \subseteq DOMAIN before.groundtruth_df
    /\ ~TaskMissing("verb") /\ ~TaskMissing("noun")
    /\ ~RowsDiffer("verb") /\ ~RowsDiffer("noun")

\* C23: a compute_metrics call on well-formed inputs does not fail, whichever
\* many-shot classes are absent from the ground truth, and the precision
\* (resp. recall) it reports for each of verb, noun and action is the
\* unweighted mean of the per-class precision (resp. recall) of the top-1
\* predictions over exactly the many-shot classes that occur in the task's
\* ground-truth column (nan when none occurs).
C23_MacroMeansOverPresentManyShot ==
    (fn = "compute_metrics" /\ calls > 0 /\ WellFormedCall) =>
        /\ pc = "done"
        /\ \A task \in {"verb", "noun", "action"} :
              LET present == ManyShotPresent(task)
              IN  \E pred \in TopPredictions(task) :
                    /\ ret.precision[task] =
                          RatMean([j \in 1..Len(present) |->
                                      ClassPrecision(task, pred, present[j])])
                    /\ ret.recall[task] =
                          RatMean([j \in 1..Len(present) |->
                                      ClassRecall(task, pred, present[j])])

\* A call has returned for a ground truth of two instances of verb class 1,
\* both predicted as verb 1, with many-shot verbs 0 and 1: the verb
\* precision is that of class 1 alone, 1, not the mean 1/2 over both
\* many-shot verbs; and no many-shot action occurs in the ground truth.
C23_Witness ==
    /\ fn = "compute_metrics" /\ calls > 0 /\ pc = "done"
    /\ many_shot_verbs = Array1(<<0, 1>>)
    /\ groundtruth_df["verb_class"] = <<1, 1>>
    /\ groundtruth_df["noun_class"] = <<0, 0>>
    /\ scores["verb"].data = << <<0, 1>>, <<0, 1>> >>
    /\ ret.precision.verb = <<1, 1>>
    /\ ManyShotPresent("action") = <<>>
    /\ ret.precision.action = NaN

-----------------------------------------------------------------------------
(* scoring.py: equal scores in scores_to_ranks *)

\* The rank of class c in a row of ranks.
RankOf(r, c) == CHOOSE j \in 1..Len(r) : r[j] = c

C25_Not2DRaisesValueError ==
    (fn = "scores_to_ranks" /\ pc # "call" /\ scores.ndim # 2) =>
        /\ pc = "raised"
        /\ exc.type = "ValueError"
        /\ ret = None

-----------------------------------------------------------------------------
(* scoring.py: scores_to_ranks on a list of dicts *)

\* A dict of the enumerated calls has at most MaxDictLen keys.
MaxDictLen == 3

\* The class ids of the enumerated dicts: neither contiguous nor starting
\* at 0 for every dict.
SparseClassIds == {0, 5, 352}

\* The scores of the enumerated dicts.
SparseScores == {<<1, 2>>, <<1, 1>>}

\* The dicts from class id to score, as their items in insertion order.
SparseDicts ==
    UNION {{[j \in 1..n |-> <<keys[j], vals[j]>>] :
                keys \in {k \in [1..n -> SparseClassIds] : Injective(k)},
                vals \in [1..n -> SparseScores]} :
            n \in 0..MaxDictLen}

InitSparseRanks ==
    /\ pc = "call"
    /\ fn = "scores_to_ranks"
    /\ exc = NoExc
    /\ ret = None
    /\ UnusedEval /\ UnusedLoad
    /\ \E n \in 1..2 : scores \in {[list |-> lst] : lst \in [1..n -> SparseDicts]}
    /\ Unused(verb) /\ Unused(noun)
    /\ Unused(rankings) /\ Unused(labels) /\ Unused(ks) /\ Unused(classes)
    /\ Unused(verb_scores) /\ Unused(noun_scores)
    /\ Unused(top_k) /\ Unused(action_priors) /\ Unused(frame)

\* scores_to_ranks on a list of dicts.
ScoresToRanksSparse ==
    /\ fn = "scores_to_ranks"
    /\ pc = "call"
    /\ \E r \in scores_to_ranks(scores) :
          /\ exc' = r.exc
          /\ ret' = r.ret
          /\ pc' = IF r.exc.type = "none" THEN "done" ELSE "raised"
    /\ UNCHANGED <<fn, codecVars, rankVars, metricVars, composeVars, evalVars, loadVars>>

SpecSparseRanks == InitSparseRanks /\ [][ScoresToRanksSparse]_vars

\* The score of class id c in the dict d.
ScoreIn(d, c) == d[CHOOSE j \in 1..Len(d) : d[j][1] = c][2]

\* C26: scores_to_ranks of a list of dicts returns one row per dict; row i
\* holds every key of the i-th dict once and nothing else, by non-increasing
\* score, whatever integers the keys are.
C26_SparseRowsRankTheKeys ==
    (fn = "scores_to_ranks" /\ pc # "call") =>
        /\ pc = "done"
        /\ Len(ret.data) = Len(scores.list)
        /\ \A i \in 1..Len(scores.list) :
              LET d == scores.list[i]
                  r == ret.data[i]
              IN  /\ Len(r) = Len(d)
                  /\ {r[j] : j \in 1..Len(r)} = {d[j][1] : j \in 1..Len(d)}
                  /\ \A j \in 1..(Len(r) - 1) :
                        RatLeq(ScoreIn(d, r[j + 1]), ScoreIn(d, r[j]))

\* Two dicts with the keys 5 and 352, and 352, 0 and 5, have been ranked:
\* the first row is (352, 5) and the second (0, 5, 352).
C26_Witness ==
    /\ fn = "scores_to_ranks" /\ pc = "done"
    /\ scores.list = << << <<5, <<1, 2>> >>, <<352, <<1, 1>> >> >>,
                        << <<352, <<1, 2>> >>, <<0, <<1, 1>> >>, <<5, <<1, 1>> >> >> >>
    /\ ret.data = << <<352, 5>>, <<0, 5, 352>> >>

\* C27 as stated: a compute_metrics call that fails leaves the caller's
\* groundtruth_df and scores as they were when the call began: no
\* action_class column and no 'action' entry is added.
C27_FailureLeavesInputsUnchanged ==
    (fn = "compute_metrics" /\ calls > 0 /\ pc = "raised") =>
        /\ groundtruth_df = before.groundtruth_df
        /\ scores = before.scores

-----------------------------------------------------------------------------
(* metrics.py: compute_metrics on the noun classes of the dataset module *)

\* The noun score matrix of these calls has _noun_class_count columns, one
\* per noun class of dataset/epic_dataset.py.  The calls are enumerated by
\* the scores of its first and its last column; every other column scores
\* so low that its pairs rank below the pairs of these two, and is left
\* out of the state.
NounColumns == <<0, _noun_class_count - 1>>

\* The (verb_class, noun_class) rows of the ground truths of these calls.
DatasetTruthRows == {<<0, 0>>, <<0, 352>>, <<1, 0>>, <<2, 0>>}

\* The arrays compute_action_scores returns, the nouns as the columns of
\* the full matrix.
OfNounColumns(r) ==
    [verbs |-> r.verbs,
     nouns |-> Array2([i \in 1..Len(r.nouns.data) |->
                  [j \in 1..Len(r.nouns.data[i]) |-> NounColumns[r.nouns.data[i][j] + 1]]]),
     action_scores |-> r.action_scores]

\* compute_metrics without action_priors after line 122: groundtruth_df has
\* its action_class column and frame holds what compute_action_scores
\* returned for scores["verb"] and scores["noun"], which verb_scores and
\* noun_scores hold; scores is followed for its 'action' entry only.
InitDerive ==
    /\ pc = "composed"
    /\ fn = "compute_metrics"
    /\ exc = NoExc
    /\ ret = None
    /\ UnusedLoad
    /\ Unused(many_shot_verbs) /\ Unused(many_shot_nouns) /\ Unused(many_shot_actions)
    /\ Unused(given) /\ Unused(before) /\ Unused(calls)
    /\ Unused(verb) /\ Unused(noun)
    /\ Unused(rankings) /\ Unused(labels) /\ Unused(ks) /\ Unused(classes)
    /\ top_k = ComputeMetricsTopK
    /\ action_priors = None
    /\ scores = EmptyDict
    /\ \E n \in 1..2 :
          /\ verb_scores \in {Array2(vs) : vs \in [1..n -> VerbScoreRows]}
          /\ noun_scores \in {Array2(ns) : ns \in [1..n -> NounScoreRows]}
          /\ groundtruth_df \in
                {LET df == TruthTable(rows, {"verb_class", "noun_class"})
                 IN  SetItem(df, "action_class", ActionClassColumn(df)) :
                    rows \in [1..n -> DatasetTruthRows]}
    /\ \E r \in compute_action_scores(verb_scores, noun_scores, top_k, action_priors) :
          frame = OfNounColumns(r.ret)

\* Lines 123-134 for the action task: scores["action"] is built from the
\* returned arrays and ranked, and the action accuracies are computed.
DeriveActionRanks ==
    /\ fn = "compute_metrics"
    /\ pc = "composed"
    /\ LET derived == SetItem(scores, "action", [list |-> ActionDicts(frame)])
       IN  /\ scores' = derived
           /\ \E r \in scores_to_ranks(derived["action"]) :
                 LET action_accuracies ==
                        topk_accuracy(r.ret, Array1(groundtruth_df["action_class"]),
                                      ActionKs(MetricsKs))
                 IN  /\ rankings' = r.ret
                     /\ exc' = action_accuracies.exc
                     /\ ret' = action_accuracies.ret
                     /\ pc' = IF action_accuracies.exc.type = "none"
                              THEN "done" ELSE "raised"
    /\ UNCHANGED <<fn, codecVars, labels, ks, classes, composeVars, evalVars, loadVars>>

SpecDerive == InitDerive /\ [][DeriveActionRanks]_vars

\* The encoded id of the j-th pair returned for instance i.
PairId(i, j) == frame.verbs.data[i][j] * 352 + frame.nouns.data[i][j]

\* C28 as stated: the distinct (verb, noun) pairs returned for an instance
\* get distinct encoded action ids, so that the instance's dict has as many
\* entries as pairs were returned, all rows of the action ranks have the
\* same length and the action rank array is 2D, for every number of noun
\* classes.
C28_DistinctPairsDistinctIds ==
    (fn = "compute_metrics" /\ pc \in {"done", "raised"}) =>
        /\ \A i \in Instances :
              /\ \A j, l \in 1..Len(frame.verbs.data[i]) : j # l => PairId(i, j) # PairId(i, l)
              /\ Len(scores["action"].list[i]) = Len(frame.verbs.data[i])
              /\ Len(rankings.data[i]) = Len(rankings.data[1])
        /\ rankings.ndim = 2

\* C22 as stated: when compute_metrics derives the action scores, instance
\* i's action ranking is the sequence of the encoded ids verb * 352 + noun
\* of the returned pairs, in descending composed score, and an instance
\* whose ground-truth (verb, noun) is not among its returned pairs is not
\* counted correct at any k.
C22_RankingIsTheReturnedPairs ==
    (fn = "compute_metrics" /\ pc = "done") =>
        /\ \A i \in Instances :
              rankings.data[i] = [j \in 1..Len(frame.verbs.data[i]) |-> PairId(i, j)]
        /\ \A k \in 1..2 :
              RatLeq(ret[k],
                     Rat(Cardinality({i \in Instances :
                            \E j \in 1..Len(frame.verbs.data[i]) :
                                /\ frame.verbs.data[i][j] = groundtruth_df["verb_class"][i]
                                /\ frame.nouns.data[i][j] = groundtruth_df["noun_class"][i]}),
                         RowCount(groundtruth_df)))

\* The top-1 verb and noun of instance i: the class of the highest score.
VerbTop1(i) == ArgMax(verb_scores.data[i])
NounTop1(i) == NounColumns[ArgMax(noun_scores.data[i]) + 1]

BothTop1Correct(i) ==
    /\ VerbTop1(i) = groundtruth_df["verb_class"][i]
    /\ NounTop1(i) = groundtruth_df["noun_class"][i]

\* C29 as stated: when compute_metrics derives the action scores without
\* action_priors and no instance has tied top verb or top noun scores, an
\* instance's top-1 action is correct exactly when its top-1 verb and its
\* top-1 noun both are, and the action top-1 accuracy is the fraction of
\* the instances with both correct.
C29_ActionTop1IffBoth ==
    (fn = "compute_metrics" /\ pc = "done" /\ IsNone(action_priors)) =>
        /\ \A i \in Instances :
              (rankings.data[i][1] = groundtruth_df["action_class"][i]) <=> BothTop1Correct(i)
        /\ ret[1] = Rat(Cardinality({i \in Instances : BothTop1Correct(i)}),
                        RowCount(groundtruth_df))

-----------------------------------------------------------------------------
(* internal/loading.py: the loaded files after the directory changes *)

\* C30 as stated: whatever calls of set_datadir came before, an annotation
\* that load_file returns was read from the file of that name in the
\* current local_dir of the active repository.
C30_LoadedFromCurrentDir ==
    (fn = "load_file" /\ pc = "done") =>
        ret.file_path =
            _annotation_repositories[_annotation_repository].http_folder.local_dir
                \o <<frame.name>>

=============================================================================
